---- MODULE Spec2Model ----
(***************************************************************************)
(* Tool-augmented chat completion of openai-agents: the tools registry,   *)
(* the tool dispatcher, the history store and the turn state machine of   *)
(* OpenAIAgent.createChatCompletion.                                       *)
(*                                                                         *)
(* Strings that the code builds by concatenation are sequences of string   *)
(* tokens; an absent (undefined) string is the token Undefined and an      *)
(* absent number is Unset.                                                 *)
(***************************************************************************)
EXTENDS Integers, Sequences, FiniteSets, TLC

VARIABLES
    instance,               \* ToolsRegistry.instance
    toolsDirPath,           \* OpenAIAgent.toolsDirPath
    loading,                \* the calls of loadToolsDirFiles under way
    system_instruction,     \* OpenAIAgent.system_instruction
    defaultHistoryMessages, \* OpenAIAgent.defaultHistoryMessages
    Storage,                \* OpenAIAgent.Storage is attached
    historyOptions,         \* OpenAIAgent.historyOptions
    redis,                  \* the ordered-list store: key -> entries, most recent first
    saving,                 \* the calls of saveChatHistory under way in concurrent turns
    pc,                     \* position of the turn in createChatCompletion
    options,                \* the options of the running turn
    messages,               \* queryParams.messages of the running turn
    newMessages,            \* newMessages of the running turn
    toolFunctions,          \* toolFunctions of the running turn
    response,               \* the first provider response
    secondResponse,         \* the second provider response
    toolMessages,           \* toolMessages of the running dispatch
    idx,                    \* loop position (dispatch loop, lPush loop)
    fault,                  \* the error the last operation threw
    result,                 \* the value the last operation returned
    obs                     \* bookkeeping of the running turn, read by the properties

vars == <<instance, toolsDirPath, loading, system_instruction, defaultHistoryMessages,
          Storage, historyOptions, redis, saving, pc, options, messages, newMessages,
          toolFunctions, response, secondResponse, toolMessages, idx, fault, result,
          obs>>

registryVars == <<instance, toolsDirPath, loading>>
agentVars == <<system_instruction, Storage, historyOptions, saving>>
turnVars == <<options, messages, newMessages, toolFunctions, response,
              secondResponse, toolMessages, idx>>

-----------------------------------------------------------------------------
(* Bounds *)

MaxTurns == 2
MaxCalls == 2
MaxLimit == 2
MaxLog == 3
MaxTokens == 2

-----------------------------------------------------------------------------
(* Values *)

Undefined == "undefined"
Unset == -1

Truthy(s) == s # Undefined /\ s # ""

SeqsUpTo(S, n) == UNION {[1..k -> S] : k \in 0..n}

\* a read that forgets to reverse what it fetched
ReverseForgotten(s) == s

Reverse(s) == [i \in 1..Len(s) |-> s[Len(s) + 1 - i]]

Min(a, b) == IF a < b THEN a ELSE b

\* A chat message. tool_calls is present only when has_tool_calls; tool_call_id is
\* 0 on every message that is not a tool message.
Message(role, content, has_tool_calls, tool_calls, tool_call_id) ==
    [role |-> role, content |-> content, has_tool_calls |-> has_tool_calls,
     tool_calls |-> tool_calls, tool_call_id |-> tool_call_id]

SystemMessage(text) == Message("system", <<text>>, FALSE, <<>>, 0)
UserMessage(text) == Message("user", <<text>>, FALSE, <<>>, 0)
AssistantMessage(text) == Message("assistant", <<text>>, FALSE, <<>>, 0)
AssistantToolCalls(calls) == Message("assistant", <<"">>, TRUE, calls, 0)
ToolMessage(id, content) == Message("tool", content, FALSE, <<>>, id)

\* JSON.stringify / JSON.parse of a message: the stored entry is the text of the
\* message, a tuple of its fields in key order.
JSONstringifyMessage(m) ==
    <<m.role, m.content, m.has_tool_calls, m.tool_calls, m.tool_call_id>>
JSONparseMessage(s) == Message(s[1], s[2], s[3], s[4], s[5])

-----------------------------------------------------------------------------
(* History store: AgentStorage over the ordered-list store *)

UserIds == {"default", "u1"}
UserKey(id) == <<"user:", id>>
Keys == {UserKey(id) : id \in UserIds}

\* options.history / this.historyOptions; an absent object is NoHistoryOptions
HistoryOptions(appended_messages, remove_tool_messages) ==
    [appended_messages |-> appended_messages,
     remove_tool_messages |-> remove_tool_messages]
NoHistoryOptions == HistoryOptions(Unset, Undefined)

\* { ...a, ...b }
Spread(a, b) ==
    HistoryOptions(
        IF b.appended_messages # Unset THEN b.appended_messages
        ELSE a.appended_messages,
        IF b.remove_tool_messages # Undefined THEN b.remove_tool_messages
        ELSE a.remove_tool_messages)

\* a push onto the other end of the list
rPush(r, key, entry) == [r EXCEPT ![key] = @ \o <<entry>>]

\* a push that replaces what the list holds
lPushOverwrites(r, key, entry) == [r EXCEPT ![key] = <<entry>>]

\* a push that files the entry twice
lPushTwice(r, key, entry) == [r EXCEPT ![key] = <<entry, entry>> \o @]

lPush(r, key, entry) == [r EXCEPT ![key] = <<entry>> \o @]

\* LRANGE key 0 stop, a negative stop counting from the end of the list
lRange(r, key, stop) ==
    LET n == Len(r[key])
        last == IF stop < 0 THEN n + stop + 1 ELSE Min(stop + 1, n)
    IN  SubSeq(r[key], 1, last)

\* DEL key: the number of keys removed
del(r, key) == IF r[key] = <<>> THEN 0 ELSE 1

\* a filter that keeps every assistant message
KeptByFilterKeepsCalls(message) == message.role \in {"user", "assistant"}

KeptByFilter(message) ==
    \/ message.role = "user"
    \/ message.role = "assistant" /\ ~message.has_tool_calls

\* getStoredMessages when the store answers
\* a read that filters the whole log and then takes the most recent messages
getStoredMessagesFilterFirst(r, userId, opts) ==
    LET parsedMessages ==
            Reverse([i \in 1..Len(r[UserKey(userId)]) |->
                        JSONparseMessage(r[UserKey(userId)][i])])
        kept == IF opts.remove_tool_messages = "true"
                THEN SelectSeq(parsedMessages, KeptByFilter) ELSE parsedMessages
        k == opts.appended_messages
    IN  IF k = 0 THEN <<>>
        ELSE IF k = Unset \/ k >= Len(kept) THEN kept
        ELSE SubSeq(kept, Len(kept) - k + 1, Len(kept))

getStoredMessages(r, userId, opts) ==
    IF opts.appended_messages = 0 THEN <<>>
    ELSE LET fetched ==
                 IF opts.appended_messages # Unset
                 THEN lRange(r, UserKey(userId), opts.appended_messages - 1)
                 ELSE lRange(r, UserKey(userId), -1)
             parsedMessages ==
                 Reverse([i \in 1..Len(fetched) |-> JSONparseMessage(fetched[i])])
         IN  IF fetched = <<>> THEN <<>>
             ELSE IF opts.remove_tool_messages = "true"
                  THEN SelectSeq(parsedMessages, KeptByFilter)
                  ELSE parsedMessages

\* the id both the read and the write of a turn use
\* a store that keeps one log for everybody
StoreIdShared(user) == "default"

StoreId(user) == IF Truthy(user) THEN user ELSE "default"

\* the number of entries the store holds
RECURSIVE StoredCount(_)
StoredCount(r) ==
    IF DOMAIN r = {} THEN 0
    ELSE LET key == CHOOSE k \in DOMAIN r : TRUE
         IN  Len(r[key]) + StoredCount([k \in DOMAIN r \ {key} |-> r[k]])

\* saveChatHistory lines 116-121: the lPush of the messages from the i-th on
RECURSIVE lPushAll(_, _, _, _)
lPushAll(r, key, msgs, i) ==
    IF i > Len(msgs) THEN r
    ELSE lPushAll(lPush(r, key, JSONstringifyMessage(msgs[i])), key, msgs, i + 1)

-----------------------------------------------------------------------------
(* Tool dispatcher: the body of the loop of _callChosenFunctions *)

\* An implementation: what calling it does
Implementation(behaviour, value, origin) ==
    [behaviour |-> behaviour, value |-> value, origin |-> origin]
NoImplementation == Implementation("absent", "", 0)

\* Members every object literal inherits from Object.prototype: Object(args)
\* returns its argument.
ObjectPrototype == {"constructor"}
PrototypeMember(name) == Implementation("returnsArgument", "", 0)

\* functions[name] on the object literal built by the loader
Lookup(functions, name) ==
    IF name \in DOMAIN functions THEN functions[name]
    ELSE IF name \in ObjectPrototype THEN PrototypeMember(name)
    ELSE NoImplementation

ToolCall(id, name, arguments) == [id |-> id, name |-> name, arguments |-> arguments]

\* JSON.parse(args) succeeds
ParsesAsJSON(args) == args = "{}"

ErrorContent(errorMessage) == <<"{\"error\":">> \o errorMessage \o <<"}">>
IsErrorContent(content) == Len(content) > 0 /\ content[1] = "{\"error\":"
\* JSON.stringify(functionResponse) of a returned string
ResultContent(value) == <<"\"", value, "\"">>

\* The content of the message pushed for one call: lines 310-352
CallContent(tool, functions) ==
    LET currentFunction == Lookup(functions, tool.name)
    IN  IF currentFunction.behaviour = "absent"
        THEN ErrorContent(<<"Function '", tool.name, "' not found">>)
        ELSE IF ~ParsesAsJSON(tool.arguments)
        THEN ErrorContent(<<"Invalid arguments format for function '",
                            tool.name, "': ", tool.arguments>>)
        ELSE IF currentFunction.behaviour = "throws"
        THEN ErrorContent(<<currentFunction.value>>)
        ELSE IF currentFunction.behaviour = "undefined"
        THEN ErrorContent(<<"Function '", tool.name, "' returned no response">>)
        ELSE IF currentFunction.behaviour = "returnsArgument"
        THEN <<tool.arguments>>
        ELSE ResultContent(currentFunction.value)

\* a dispatcher whose catch branch forgets the id of the call
CallOneFunctionLosesId(tool, functions) ==
    ToolMessage(IF IsErrorContent(CallContent(tool, functions)) THEN 0 ELSE tool.id,
                CallContent(tool, functions))

\* The message pushed for one call: lines 334-338 and 347-351
CallOneFunction(tool, functions) ==
    ToolMessage(tool.id, CallContent(tool, functions))

-----------------------------------------------------------------------------
(* Tools registry: loadToolsDirFiles and importToolFunctions *)

MaxNameLength == 64

\* What an export of a tool file is: a function, or anything else, which the
\* loader validates as a tool definition.
FunctionExport(fnName, behaviour, value) ==
    [fnName |-> fnName, isFunction |-> TRUE, behaviour |-> behaviour,
     value |-> value, type |-> "", name |-> "", nameLength |-> 0,
     namePattern |-> TRUE, descriptionOk |-> TRUE, parametersOk |-> TRUE,
     strictOk |-> TRUE]
ObjectExport(fnName, type, name, nameLength, namePattern, parametersOk) ==
    [fnName |-> fnName, isFunction |-> FALSE, behaviour |-> "", value |-> "",
     type |-> type, name |-> name, nameLength |-> nameLength,
     namePattern |-> namePattern, descriptionOk |-> TRUE,
     parametersOk |-> parametersOk, strictOk |-> TRUE]
DefinitionExport(name) == ObjectExport("schema", "function", name, 8, TRUE, TRUE)

ToolFile(file, ext, isFile, imports, exports) ==
    [file |-> file, ext |-> ext, isFile |-> isFile, imports |-> imports,
     exports |-> exports]

Tool(name, behaviour, value) ==
    <<FunctionExport(name, behaviour, value), DefinitionExport(name)>>

Directory(access, files) == [access |-> access, files |-> files]

\* The tool sources of the model, by directory path
WeatherFile ==
    ToolFile("weather", "js", TRUE, TRUE,
        Tool("get_weather", "returns", "sunny") \o Tool("fail_tool", "throws", "boom")
        \o Tool("undef_tool", "undefined", ""))
TimeFile == ToolFile("time", "ts", TRUE, TRUE, Tool("get_time", "returns", "noon"))
DirectoryAt(dirPath) ==
    CASE dirPath = "tools" ->
           Directory(TRUE, <<ToolFile("README", "md", TRUE, TRUE, <<>>),
                             ToolFile("lib.js", "js", FALSE, TRUE, <<>>), WeatherFile>>)
      [] dirPath = "tools2" -> Directory(TRUE, <<TimeFile>>)
      [] dirPath = "countMismatch" ->
           Directory(TRUE, <<TimeFile,
               ToolFile("extra", "js", TRUE, TRUE, <<DefinitionExport("get_date")>>)>>)
      [] dirPath = "missingImplementation" ->
           Directory(TRUE, <<ToolFile("m", "js", TRUE, TRUE,
               <<FunctionExport("get_day", "returns", "monday"),
                 DefinitionExport("get_date")>>)>>)
      [] dirPath = "duplicateDefinition" ->
           Directory(TRUE, <<TimeFile, ToolFile("time2", "js", TRUE, TRUE,
               <<FunctionExport("format_time", "returns", "12:00"),
                 DefinitionExport("get_time")>>)>>)
      [] dirPath = "duplicateTool" ->
           Directory(TRUE, <<TimeFile, ToolFile("time2", "js", TRUE, TRUE,
               <<FunctionExport("get_time", "returns", "12:00"),
                 FunctionExport("format_time", "returns", "12:00"),
                 DefinitionExport("get_time")>>)>>)
      [] dirPath = "prototypeName" ->
           Directory(TRUE, <<ToolFile("p", "js", TRUE, TRUE,
               <<FunctionExport("build", "returns", "built"),
                 DefinitionExport("constructor")>>)>>)
      [] dirPath = "wrongType" ->
           Directory(TRUE, <<TimeFile, ToolFile("w", "js", TRUE, TRUE,
               <<ObjectExport("x", "object", "x", 1, TRUE, TRUE)>>)>>)
      [] dirPath = "longName" ->
           Directory(TRUE, <<ToolFile("l", "js", TRUE, TRUE,
               <<ObjectExport("l", "function", "l", MaxNameLength + 1, TRUE, TRUE)>>)>>)
      [] dirPath = "badName" ->
           Directory(TRUE, <<ToolFile("b", "js", TRUE, TRUE,
               <<ObjectExport("b", "function", "get weather", 11, FALSE, TRUE)>>)>>)
      [] dirPath = "importFault" ->
           Directory(TRUE, <<TimeFile, ToolFile("broken", "js", TRUE, FALSE, <<>>)>>)
      [] OTHER -> Directory(FALSE, <<>>)

DirPaths == {"tools", "tools2", "countMismatch", "missingImplementation",
             "duplicateDefinition", "duplicateTool", "prototypeName",
             "wrongType", "longName", "badName", "importFault", "noSuchDir"}

NoError == <<>>

\* validateChatCompletionTool: the message of the ValidationError, or NoError
validateChatCompletionTool(tool) ==
    IF tool.type # "function"
    THEN <<"Chat completion tool type must be \"function\"">>
    ELSE IF tool.name = ""
    THEN <<"Function name must be a non-empty string">>
    ELSE IF tool.nameLength > MaxNameLength
    THEN <<"Function name must not exceed 64 characters">>
    ELSE IF ~tool.namePattern
    THEN <<"Function name must contain only alphanumeric characters, underscores, and hyphens">>
    ELSE IF ~tool.descriptionOk
    THEN <<"Function description must be a string when provided">>
    ELSE IF ~tool.parametersOk
    THEN <<"Function parameters must be a non-null object">>
    ELSE IF ~tool.strictOk
    THEN <<"Function strict flag must be a boolean when provided">>
    ELSE NoError

AgentTools(toolDefinitions, functions) ==
    [toolDefinitions |-> toolDefinitions, toolFunctions |-> functions]
EmptyFunctions == [name \in {} |-> NoImplementation]

\* The accumulators of a load, and the error that ended it
Loading(tools, error) == [tools |-> tools, error |-> error]

\* lines 213-236: the exports of one file, from the k-th on
RECURSIVE ProcessExports(_, _, _, _)
ProcessExports(file, origin, k, acc) ==
    IF acc.error # NoError \/ k > Len(file.exports) THEN acc
    ELSE LET fn == file.exports[k]
             invalid == validateChatCompletionTool(fn)
         IN  IF fn.isFunction
             THEN ProcessExports(file, origin, k + 1,
                      Loading(AgentTools(acc.tools.toolDefinitions,
                          [name \in DOMAIN acc.tools.toolFunctions \cup {fn.fnName} |->
                              IF name = fn.fnName
                              THEN Implementation(fn.behaviour, fn.value, origin)
                              ELSE acc.tools.toolFunctions[name]]),
                          NoError))
             ELSE IF invalid # NoError
             THEN Loading(acc.tools,
                      <<"Invalid tool found at ", file.file, ": ", fn.fnName,
                        ". Invalid tool definition: ">> \o invalid)
             ELSE ProcessExports(file, origin, k + 1,
                      Loading(AgentTools(
                          Append(acc.tools.toolDefinitions,
                                 [name |-> fn.name, origin |-> origin]),
                          acc.tools.toolFunctions), NoError))

\* lines 185-237: one pass of the loop over the files, the i-th file
ProcessFile(files, i, acc) ==
    LET file == files[i]
    IN  IF file.ext \notin {"js", "ts"} \/ ~file.isFile THEN acc
        ELSE IF ~file.imports
        THEN Loading(acc.tools, <<"Error importing file: ", file.file>>)
        ELSE ProcessExports(file, i, 1, acc)

\* lines 184-237: the files of the directory, from the i-th on
RECURSIVE ProcessFiles(_, _, _)
ProcessFiles(files, i, acc) ==
    IF acc.error # NoError \/ i > Len(files) THEN acc
    ELSE ProcessFiles(files, i + 1, ProcessFile(files, i, acc))

\* A call of loadToolsDirFiles under way: the directory, the file its loop is
\* at, and its toolDefinitions and toolFunctions so far
Loader(phase, dirPath, i, acc) == [phase |-> phase, dirPath |-> dirPath, i |-> i, acc |-> acc]
NoLoad == Loader("idle", "", 0, Loading(AgentTools(<<>>, EmptyFunctions), NoError))
Loaders == {1, 2}

\* validateToolConfiguration: the message of the error, or NoError
validateToolConfiguration(fnDefinitions, functions) ==
    IF Len(fnDefinitions) # Cardinality(DOMAIN functions)
    THEN <<"Mismatch between number of function definitions (",
           ToString(Len(fnDefinitions)), ") and implementations (",
           ToString(Cardinality(DOMAIN functions)), ")">>
    ELSE LET missing == {i \in 1..Len(fnDefinitions) :
                            Lookup(functions, fnDefinitions[i].name).behaviour = "absent"}
         IN  IF missing # {}
             THEN <<"Tool not found: Missing function implementation for tool: ",
                    fnDefinitions[CHOOSE i \in missing : \A j \in missing : i <= j].name>>
             ELSE NoError

\* lines 245-262: the catch of loadToolsDirFiles rethrows the errors of its list
\* and wraps the others, the ToolNotFoundError of validateToolConfiguration among them
LoadRethrown(error) ==
    IF error[1] = "Tool not found: Missing function implementation for tool: "
    THEN <<"Unexpected error loading tools: ">> \o error
    ELSE error

\* loadToolsDirFiles up to its publication: the tools it built, or its error
LoadResult(dirPath) ==
    LET dir == DirectoryAt(dirPath)
        read == ProcessFiles(dir.files, 1,
                    Loading(AgentTools(<<>>, EmptyFunctions), NoError))
        config == validateToolConfiguration(read.tools.toolDefinitions,
                                            read.tools.toolFunctions)
    IN  IF ~dir.access
        THEN Loading(read.tools, <<"Was not possible to access the directory: ", dirPath>>)
        ELSE IF read.error # NoError THEN read
        ELSE IF config # NoError THEN Loading(read.tools, LoadRethrown(config))
        ELSE read

\* ToolsRegistry.instance: null, or the tools of the last successful load
NoInstance == [present |-> FALSE, tools |-> AgentTools(<<>>, EmptyFunctions)]
Published(tools) == [present |-> TRUE, tools |-> tools]

\* a loader that publishes what it read before validating it
PublishedBeforeValidation(loaded, current) == Published(loaded.tools)

\* line 243, ToolsRegistry.setInstance after a load that threw nothing
PublishedBy(loaded, current) ==
    IF loaded.error = NoError THEN Published(loaded.tools) ELSE current

DefinitionNames(inst) ==
    [i \in 1..Len(inst.tools.toolDefinitions) |-> inst.tools.toolDefinitions[i].name]

\* importToolFunctions: the error it throws or the tools it returns, and the
\* registry instance it leaves (the lazy load publishes one)
Resolved(error, toolChoices, functions, inst) ==
    [error |-> error, toolChoices |-> toolChoices, toolFunctions |-> functions,
     instance |-> inst]

FindDefinition(toolDefinitions, toolName) ==
    LET found == {i \in 1..Len(toolDefinitions) : toolDefinitions[i].name = toolName}
    IN  IF found = {} THEN <<>>
        ELSE <<toolDefinitions[CHOOSE i \in found : \A j \in found : i <= j]>>

RECURSIVE FindDefinitions(_, _, _)
FindDefinitions(toolDefinitions, toolNames, i) ==
    IF i > Len(toolNames) THEN <<>>
    ELSE FindDefinition(toolDefinitions, toolNames[i])
         \o FindDefinitions(toolDefinitions, toolNames, i + 1)

\* a resolution that reports the first missing name only
MissingToolsFirstOnly(toolChoices, toolNames, i) ==
    LET missing == {k \in i..Len(toolNames) :
                       ~\E j \in 1..Len(toolChoices) : toolChoices[j].name = toolNames[k]}
    IN  IF missing = {} THEN <<>>
        ELSE <<toolNames[CHOOSE k \in missing : \A j \in missing : k <= j]>>

RECURSIVE MissingTools(_, _, _)
MissingTools(toolChoices, toolNames, i) ==
    IF i > Len(toolNames) THEN <<>>
    ELSE (IF \E k \in 1..Len(toolChoices) : toolChoices[k].name = toolNames[i]
          THEN <<>> ELSE <<toolNames[i]>>)
         \o MissingTools(toolChoices, toolNames, i + 1)

\* a resolution that hands over what it finds and reports nothing missing
importToolFunctionsFound(inst, dirPath, toolNames) ==
    Resolved(NoError, FindDefinitions(inst.tools.toolDefinitions, toolNames, 1),
             inst.tools.toolFunctions, inst)

importToolFunctions(inst, dirPath, toolNames) ==
    LET loaded == LoadResult(dirPath)
        after == IF inst.present THEN inst ELSE PublishedBy(loaded, inst)
        toolChoices == FindDefinitions(after.tools.toolDefinitions, toolNames, 1)
        missingTools == MissingTools(toolChoices, toolNames, 1)
    IN  IF ~Truthy(dirPath)
        THEN Resolved(<<"Tools directory path not set. Call loadToolsDirFiles with your tools directory path first.">>,
                      <<>>, EmptyFunctions, inst)
        ELSE IF ~inst.present /\ loaded.error # NoError
        THEN Resolved(IF loaded.error[1] = "Mismatch between number of function definitions ("
                      THEN loaded.error
                      ELSE <<"Failed to import tool functions: ">> \o loaded.error,
                      <<>>, EmptyFunctions, inst)
        ELSE IF missingTools # <<>>
        THEN Resolved(<<"Tool not found: The following tools were not found: ">>
                      \o missingTools, <<>>, EmptyFunctions, after)
        ELSE Resolved(NoError, toolChoices, after.tools.toolFunctions, after)

-----------------------------------------------------------------------------
(* The turn: OpenAIAgent.createChatCompletion *)

ToolChoices(defined, names) == [defined |-> defined, names |-> names]
NoToolChoices == ToolChoices(FALSE, <<>>)

TurnOptions(message, instruction, tool_choices, user, history) ==
    [message |-> message, system_instruction |-> instruction,
     tool_choices |-> tool_choices, user |-> user, history |-> history]
NoOptions == TurnOptions("", Undefined, NoToolChoices, Undefined, NoHistoryOptions)

\* this.defaultHistoryMessages: undefined, or the array
Template(defined, msgs) == [defined |-> defined, msgs |-> msgs]
NoTemplate == Template(FALSE, <<>>)

Usage(prompt, completion, total) ==
    [prompt_tokens |-> prompt, completion_tokens |-> completion, total_tokens |-> total]
Completion(hasMessage, message, usage) ==
    [hasMessage |-> hasMessage, message |-> message, usage |-> usage]
NoCompletion == Completion(FALSE, AssistantMessage(""), Usage(0, 0, 0))

NoToolFunctions == [defined |-> FALSE, functions |-> EmptyFunctions]

Observed(turn, logBefore, providerCalls, contextMessages, requests) ==
    [turn |-> turn, logBefore |-> logBefore, providerCalls |-> providerCalls,
     contextMessages |-> contextMessages, requests |-> requests]

_handleSystemInstructionMessage(defaultInstruction, customInstruction) ==
    IF Truthy(defaultInstruction) /\ ~Truthy(customInstruction)
    THEN SystemMessage(defaultInstruction)
    ELSE IF Truthy(customInstruction)
    THEN SystemMessage(customInstruction)
    ELSE SystemMessage("")

\* lines 448-458: the history options of the read
\* the options of the agent and of the call, merged and left at that
ReadOptionsMerged(o) == Spread(historyOptions, o.history)

ReadOptions(o) ==
    LET merged == Spread(historyOptions, o.history)
    IN  IF Storage /\ o.tool_choices.defined
           /\ historyOptions.appended_messages \notin {Unset, 0}
        THEN [merged EXCEPT !.remove_tool_messages = "true"]
        ELSE merged

\* _getContextMessages when the store answers: the template array with the
\* stored messages pushed onto it
_getContextMessages(o) ==
    (IF defaultHistoryMessages.defined THEN defaultHistoryMessages.msgs ELSE <<>>)
    \o (IF Storage
        THEN getStoredMessages(redis, StoreId(o.user), ReadOptions(o))
        ELSE <<>>)

\* an assembly that puts the instruction beside the leading system message
AssembledMessagesKeepsLeading(contextMessages, o) ==
    LET systemImstructionMessage ==
            _handleSystemInstructionMessage(system_instruction, o.system_instruction)
    IN  Append(IF Truthy(systemImstructionMessage.content[1])
               THEN <<systemImstructionMessage>> \o contextMessages
               ELSE contextMessages,
               UserMessage(o.message))

\* lines 463-479: the message array of the request
AssembledMessages(contextMessages, o) ==
    LET systemImstructionMessage ==
            _handleSystemInstructionMessage(system_instruction, o.system_instruction)
        storedMessages ==
            IF Truthy(systemImstructionMessage.content[1])
            THEN <<systemImstructionMessage>>
                 \o (IF contextMessages # <<>> /\ contextMessages[1].role = "system"
                     THEN Tail(contextMessages) ELSE contextMessages)
            ELSE contextMessages
    IN  Append(storedMessages, UserMessage(o.message))

\* The array of queryParams.messages is the array of this.defaultHistoryMessages
\* whenever the agent has one (line 281 copies the reference).
Aliased(msgs) ==
    IF defaultHistoryMessages.defined THEN Template(TRUE, msgs)
    ELSE defaultHistoryMessages

Wrapped(cause) == <<"Chat completion failed: ">> \o cause

\* an append that drops the first message whatever its role
DropFirstMessage(msgs) == IF msgs = <<>> THEN msgs ELSE Tail(msgs)

\* an append that stores the system message too
DropLeadingSystemNever(msgs) == msgs

\* saveChatHistory line 113
DropLeadingSystem(msgs) ==
    IF msgs # <<>> /\ msgs[1].role = "system" THEN Tail(msgs) ELSE msgs

\* a test that forgets the tool subset of the turn
EntersDispatchWithoutTools(responseMessage, functions) ==
    responseMessage.has_tool_calls

\* line 499
EntersDispatch(responseMessage, functions) ==
    responseMessage.has_tool_calls /\ functions.defined

\* What an operation returned to its caller
Result(kind, value) == [kind |-> kind, value |-> value]
NoResult == Result("none", <<>>)

NoUsage == Usage(Unset, Unset, Unset)
OrZero(tokens) == IF tokens = Unset THEN 0 ELSE tokens

\* an aggregation that takes the total of the last response alone
getTokensUsageTotalOfLast(usage1, usage2) ==
    Usage(OrZero(usage1.prompt_tokens) + OrZero(usage2.prompt_tokens),
          OrZero(usage1.completion_tokens) + OrZero(usage2.completion_tokens),
          OrZero(usage2.total_tokens))

getTokensUsage(usage1, usage2) ==
    Usage(OrZero(usage1.prompt_tokens) + OrZero(usage2.prompt_tokens),
          OrZero(usage1.completion_tokens) + OrZero(usage2.completion_tokens),
          OrZero(usage1.total_tokens) + OrZero(usage2.total_tokens))

\* getCompletionsUsage(response, secondResponse?)
getCompletionsUsage(completions) ==
    getTokensUsage(completions[1].usage,
                   IF Len(completions) > 1 THEN completions[2].usage ELSE NoUsage)

\* handleNResponses: the texts of the choices of the last response
handleNResponses(completion) == <<completion.message.content>>

\* a result that keeps the last raw response only
CompletionResultLastOnly(completions, completion_messages) ==
    Result("completion",
           [choices |-> handleNResponses(completions[Len(completions)]),
            total_usage |-> getCompletionsUsage(<<completions[Len(completions)]>>),
            completion_messages |-> completion_messages,
            completions |-> <<completions[Len(completions)]>>])

CompletionResult(completions, completion_messages) ==
    Result("completion",
           [choices |-> handleNResponses(completions[Len(completions)]),
            total_usage |-> getCompletionsUsage(completions),
            completion_messages |-> completion_messages,
            completions |-> completions])

Fail(error) ==
    /\ pc' = "failed"
    /\ fault' = error
    /\ result' = NoResult

-----------------------------------------------------------------------------
(* Inputs of the model *)

Questions == <<"q1", "q2", "q3", "q4">>
DefaultInstructions == {Undefined, "default"}
Instructions == {Undefined, "", "percall"}
AgentHistory == {NoHistoryOptions, HistoryOptions(MaxLimit, Undefined)}

Templates ==
    {NoTemplate, Template(TRUE, <<>>),
     Template(TRUE, <<SystemMessage("template"), UserMessage("hi"), AssistantMessage("hello")>>)}

\* What the model may ask to call: <<name, arguments>>
CallKinds ==
    {<<"get_weather", "{}">>, <<"get_weather", "{bad">>, <<"fail_tool", "{}">>,
     <<"undef_tool", "{}">>, <<"no_such_tool", "{}">>, <<"constructor", "{}">>}

\* The tool_calls of a response, with ids no other response of the run carries
ToolCallsOf(kinds, first) ==
    [i \in 1..Len(kinds) |-> ToolCall(first + i, kinds[i][1], kinds[i][2])]

ProviderUsage == Usage(3, 2, 5)
SecondProviderUsage == Usage(4, 3, 7)

\* The answers of the provider to the first call of turn t, its tool calls of the
\* given kinds
FirstCompletions(t, kinds) ==
    {Completion(FALSE, AssistantMessage(""), ProviderUsage),
     Completion(TRUE, AssistantMessage("answer"), ProviderUsage)}
    \cup {Completion(TRUE, AssistantToolCalls(ToolCallsOf(ks, 2 * MaxCalls * t)),
                     ProviderUsage) : ks \in SeqsUpTo(kinds, MaxCalls)}

\* The answers of the provider to the second call of turn t
SecondCompletions(t) ==
    {Completion(FALSE, AssistantMessage(""), SecondProviderUsage),
     Completion(TRUE, AssistantMessage("final"), SecondProviderUsage),
     Completion(TRUE,
         AssistantToolCalls(ToolCallsOf(<<<<"get_weather", "{}">>>>,
                                        2 * MaxCalls * t + MaxCalls)),
         SecondProviderUsage)}

\* The options of the turns of Spec: every kind of instruction and of history
\* read, tools requested or not
SpecOptions(t) ==
    {TurnOptions(Questions[t], m, c, Undefined, h) :
        m \in Instructions,
        c \in {NoToolChoices, ToolChoices(TRUE, <<"get_weather">>)},
        h \in {NoHistoryOptions, HistoryOptions(MaxLimit, Undefined),
               HistoryOptions(Unset, "true"), HistoryOptions(Unset, "false")}}
SpecCallKinds == {<<"get_weather", "{}">>}

\* The options of the turn of SpecOneTurn: every kind of tool request, two users
OneTurnOptions ==
    {TurnOptions(Questions[1], m, c, u, h) :
        m \in {Undefined, "percall"},
        c \in {NoToolChoices, ToolChoices(TRUE, <<>>), ToolChoices(TRUE, <<"get_weather">>),
               ToolChoices(TRUE, <<"get_weather", "get_time">>)},
        u \in {Undefined, "u1"},
        h \in {NoHistoryOptions, HistoryOptions(0, Undefined)}}

\* The operands of an aggregation: every field a token count up to MaxTokens or
\* left out; NoUsage is the operand left out
OptionalUsages ==
    {Usage(p, c, t) : p \in {Unset} \cup 0..MaxTokens,
                      c \in {Unset} \cup 0..MaxTokens,
                      t \in {Unset} \cup 0..MaxTokens}

\* The message lists a client appends to a log
Batches ==
    {<<>>,
     <<SystemMessage("s"), UserMessage("q1"), AssistantMessage("a1")>>,
     <<UserMessage("q2"), AssistantToolCalls(<<ToolCall(1, "get_weather", "{}")>>),
       ToolMessage(1, ResultContent("sunny"))>>,
     <<AssistantMessage("a2")>>}

\* The options of a read: every limit up to MaxLimit or none, the filter on
\* or left out
ReadOptionSets ==
    {HistoryOptions(l, f) : l \in {Unset} \cup 0..MaxLimit,
                           f \in {Undefined, "true"}}

-----------------------------------------------------------------------------
(* Actions *)

IdleTurn ==
    /\ options = NoOptions
    /\ messages = <<>>
    /\ newMessages = <<>>
    /\ toolFunctions = NoToolFunctions
    /\ response = NoCompletion
    /\ secondResponse = NoCompletion
    /\ toolMessages = <<>>
    /\ idx = 0

\* A call of saveChatHistory under way: the id it files under, the messages
\* left after the removal of a leading system message, and how many of them
\* it has pushed
Save(id, msgs, pushed) == [id |-> id, messages |-> msgs, pushed |-> pushed]
NoSave == Save("", <<>>, 0)
Savers == {1, 2}

\* the deltas of two turns that end at the same time, and an append that
\* starts with a system message
SaverBatches ==
    <<{<<UserMessage("q1"), AssistantMessage("a1")>>,
       <<SystemMessage("s"), UserMessage("q1"), AssistantMessage("a1")>>},
      {<<UserMessage("q2"), AssistantToolCalls(<<ToolCall(1, "get_weather", "{}")>>),
         ToolMessage(1, ResultContent("sunny")), AssistantMessage("a2")>>,
       <<UserMessage("q2"), AssistantMessage("a2")>>}>>

Init ==
    /\ instance = NoInstance
    /\ toolsDirPath = Undefined
    /\ loading = [l \in Loaders |-> NoLoad]
    /\ saving = [w \in Savers |-> NoSave]
    /\ system_instruction \in DefaultInstructions
    /\ defaultHistoryMessages \in Templates
    /\ Storage = FALSE
    /\ historyOptions = NoHistoryOptions
    /\ redis = [k \in Keys |-> <<>>]
    /\ pc = "idle"
    /\ IdleTurn
    /\ fault = NoError
    /\ result = NoResult
    /\ obs = Observed(0, redis, 0, <<>>, <<>>)

\* OpenAIAgent.loadToolFuctions
loadToolFuctions(toolsDirAddr) ==
    /\ pc = "idle"
    /\ LET loaded == LoadResult(toolsDirAddr)
       IN  IF ~Truthy(toolsDirAddr)
           THEN /\ fault' = <<"Tools directory path required.">>
                /\ result' = NoResult
                /\ UNCHANGED registryVars
           ELSE /\ UNCHANGED loading
                /\ instance' = PublishedBy(loaded, instance)
                /\ toolsDirPath' = IF loaded.error = NoError THEN toolsDirAddr
                                   ELSE toolsDirPath
                /\ fault' = loaded.error
                /\ result' = IF loaded.error = NoError THEN Result("boolean", TRUE)
                             ELSE NoResult
    /\ UNCHANGED <<agentVars, defaultHistoryMessages, redis, pc, turnVars, obs>>

\* the exported loadToolsDirFiles, which is also loadToolFuctions up to the end
\* of its await of line 402: the snapshot is published, the path is not recorded
loadToolsDirFiles(dirPath) ==
    /\ pc = "idle"
    /\ LET loaded == LoadResult(dirPath)
       IN  /\ instance' = PublishedBy(loaded, instance)
           /\ fault' = loaded.error
           /\ result' = IF loaded.error = NoError THEN Result("agentTools", loaded.tools)
                        ELSE NoResult
    /\ UNCHANGED <<toolsDirPath, loading, agentVars, defaultHistoryMessages, redis, pc,
                   turnVars, obs>>

\* loadToolFuctions is called (lines 400-402) and loadToolsDirFiles reaches its
\* loop: lines 160-181
LoadBegins(l, dirPath) ==
    /\ pc = "idle"
    /\ loading[l].phase = "idle"
    /\ IF ~DirectoryAt(dirPath).access
       THEN /\ fault' = <<"Was not possible to access the directory: ", dirPath>>
            /\ result' = NoResult
            /\ UNCHANGED loading
       ELSE /\ loading' = [loading EXCEPT ![l] = Loader("reading", dirPath, 1, NoLoad.acc)]
            /\ UNCHANGED <<fault, result>>
    /\ UNCHANGED <<instance, toolsDirPath, agentVars, defaultHistoryMessages, redis, pc,
                   turnVars, obs>>

\* one pass of the loop of lines 184-237, between two awaits; after the last
\* file lines 240-244 follow with no await in between, and a throw ends the call
LoadReadsFile(l) ==
    LET ld == loading[l]
        files == DirectoryAt(ld.dirPath).files
        acc == IF ld.i <= Len(files) THEN ProcessFile(files, ld.i, ld.acc) ELSE ld.acc
        config == validateToolConfiguration(acc.tools.toolDefinitions,
                                            acc.tools.toolFunctions)
        loaded == IF acc.error = NoError /\ config # NoError
                  THEN Loading(acc.tools, LoadRethrown(config)) ELSE acc
    IN  /\ pc = "idle"
        /\ ld.phase = "reading"
        /\ IF acc.error = NoError /\ ld.i < Len(files)
           THEN /\ loading' = [loading EXCEPT ![l] = Loader("reading", ld.dirPath,
                                                           ld.i + 1, acc)]
                /\ UNCHANGED <<instance, fault, result>>
           ELSE /\ instance' = PublishedBy(loaded, instance)
                /\ fault' = loaded.error
                /\ result' = NoResult
                /\ loading' = [loading EXCEPT ![l] =
                                  IF loaded.error = NoError
                                  THEN Loader("published", ld.dirPath, ld.i, acc)
                                  ELSE NoLoad]
        /\ UNCHANGED <<toolsDirPath, agentVars, defaultHistoryMessages, redis, pc,
                       turnVars, obs>>

\* loadToolFuctions resumes from its await: lines 403-404
LoadReturns(l) ==
    /\ pc = "idle"
    /\ loading[l].phase = "published"
    /\ toolsDirPath' = loading[l].dirPath
    /\ loading' = [loading EXCEPT ![l] = NoLoad]
    /\ fault' = NoError
    /\ result' = Result("boolean", TRUE)
    /\ UNCHANGED <<instance, agentVars, defaultHistoryMessages, redis, pc, turnVars, obs>>

\* a caller assigns the public static OpenAIAgent.toolsDirPath
AssignToolsDirPath(dirPath) ==
    /\ pc = "idle"
    /\ toolsDirPath' = dirPath
    /\ fault' = NoError
    /\ result' = NoResult
    /\ UNCHANGED <<instance, loading, agentVars, defaultHistoryMessages, redis, pc,
                   turnVars, obs>>

\* a caller calls the exported importToolFunctions
ImportToolFunctions(toolNames) ==
    /\ pc = "idle"
    /\ LET toolChoices == importToolFunctions(instance, toolsDirPath, toolNames)
       IN  /\ instance' = toolChoices.instance
           /\ fault' = toolChoices.error
           /\ result' = IF toolChoices.error # NoError THEN NoResult
                        ELSE Result("tools",
                                 [toolChoices |-> toolChoices.toolChoices,
                                  toolFunctions |-> toolChoices.toolFunctions])
    /\ UNCHANGED <<toolsDirPath, loading, agentVars, defaultHistoryMessages, redis, pc,
                   turnVars, obs>>

\* OpenAIAgent.setStorage
setStorage(history) ==
    /\ pc = "idle"
    /\ ~Storage
    /\ Storage' = TRUE
    /\ historyOptions' = IF history # NoHistoryOptions THEN history ELSE historyOptions
    /\ fault' = NoError
    /\ result' = Result("boolean", TRUE)
    /\ UNCHANGED <<registryVars, system_instruction, saving, defaultHistoryMessages, redis,
                   pc, turnVars, obs>>

\* createChatCompletion is called: lines 443-458
createChatCompletion(o) ==
    /\ pc = "idle"
    /\ obs.turn < MaxTurns
    /\ pc' = "assemble"
    /\ options' = o
    /\ fault' = NoError
    /\ result' = NoResult
    /\ obs' = Observed(obs.turn + 1, redis, 0, <<>>, <<>>)
    /\ UNCHANGED <<registryVars, agentVars, defaultHistoryMessages, redis, messages,
                   newMessages, toolFunctions, response, secondResponse,
                   toolMessages, idx>>

\* lines 460-479: the history read answers and the request is assembled
Assemble ==
    /\ pc = "assemble"
    /\ LET contextMessages == _getContextMessages(options)
           assembled == AssembledMessages(contextMessages, options)
       IN  /\ messages' = assembled
           /\ defaultHistoryMessages' = Aliased(assembled)
           /\ obs' = [obs EXCEPT !.contextMessages = contextMessages]
    /\ newMessages' = <<UserMessage(options.message)>>
    /\ pc' = IF options.tool_choices.names # <<>> THEN "resolve" ELSE "first_call"
    /\ UNCHANGED <<registryVars, agentVars, redis, options, toolFunctions, response,
                   secondResponse, toolMessages, idx, fault, result>>

\* line 285: the store rejects the read; the call is outside the try of line 481
AssembleReadFault ==
    /\ pc = "assemble"
    /\ Storage
    /\ ReadOptions(options).appended_messages # 0
    /\ Fail(<<"store fault">>)
    /\ UNCHANGED <<registryVars, agentVars, defaultHistoryMessages, redis, turnVars, obs>>

\* lines 483-489
ResolveTools ==
    /\ pc = "resolve"
    /\ LET toolChoices == importToolFunctions(instance, toolsDirPath,
                                              options.tool_choices.names)
       IN  /\ instance' = toolChoices.instance
           /\ IF toolChoices.error # NoError
              THEN /\ Fail(Wrapped(toolChoices.error))
                   /\ UNCHANGED toolFunctions
              ELSE /\ pc' = "first_call"
                   /\ toolFunctions' = [defined |-> TRUE,
                                        functions |-> toolChoices.toolFunctions]
                   /\ UNCHANGED <<fault, result>>
    /\ UNCHANGED <<toolsDirPath, loading, agentVars, defaultHistoryMessages, redis, options,
                   messages, newMessages, response, secondResponse, toolMessages,
                   idx, obs>>

\* a provider call that is made again when it brought no message
SubmittedAgain ==
    [obs EXCEPT !.providerCalls = @ + 2, !.requests = Append(Append(@, messages), messages)]

Submitted == [obs EXCEPT !.providerCalls = @ + 1, !.requests = Append(@, messages)]

\* line 491: the provider call throws
FirstCallFault ==
    /\ pc = "first_call"
    /\ obs' = Submitted
    /\ Fail(Wrapped(<<"provider fault">>))
    /\ UNCHANGED <<registryVars, agentVars, defaultHistoryMessages, redis, turnVars>>

\* lines 491-519: the provider answers the first call
FirstCall(completion) ==
    /\ pc = "first_call"
    /\ obs' = Submitted
    /\ response' = completion
    /\ IF ~completion.hasMessage
       THEN /\ Fail(Wrapped(<<"No response message received from OpenAI">>))
            /\ UNCHANGED <<messages, newMessages, defaultHistoryMessages, idx>>
       ELSE /\ UNCHANGED fault
            /\ IF EntersDispatch(completion.message, toolFunctions)
               THEN /\ pc' = "dispatch"
                    /\ newMessages' = Append(newMessages, completion.message)
                    /\ messages' = Append(messages, completion.message)
                    /\ defaultHistoryMessages' = Aliased(messages')
                    /\ idx' = 1
                    /\ UNCHANGED result
               ELSE /\ pc' = IF Storage THEN "save" ELSE "done"
                    /\ newMessages' =
                           IF Storage
                           THEN DropLeadingSystem(Append(newMessages, completion.message))
                           ELSE Append(newMessages, completion.message)
                    /\ idx' = 1
                    /\ result' = IF Storage THEN result
                                 ELSE CompletionResult(<<completion>>, newMessages')
                    /\ UNCHANGED <<messages, defaultHistoryMessages>>
    /\ UNCHANGED <<registryVars, agentVars, redis, options, toolFunctions,
                   secondResponse, toolMessages>>

\* lines 298-300: _callChosenFunctions refuses an empty list of calls
DispatchNoCalls ==
    /\ pc = "dispatch"
    /\ response.message.tool_calls = <<>>
    /\ Fail(Wrapped(<<"No tool calls found in the response message">>))
    /\ UNCHANGED <<registryVars, agentVars, defaultHistoryMessages, redis, turnVars, obs>>

\* lines 334-338, 347-351 and, after the last pass, lines 373-374
\* a push that puts the last item first
PushSpreadReversed(array, items) ==
    array \o [i \in 1..Len(items) |-> items[Len(items) + 1 - i]]

\* array.push(...items)
PushSpread(array, items) == array \o items

DispatchPush(message) ==
    LET pushed == Append(toolMessages, message)
    IN  /\ toolMessages' = pushed
        /\ IF idx < Len(response.message.tool_calls)
           THEN /\ idx' = idx + 1
                /\ UNCHANGED <<pc, messages, newMessages, defaultHistoryMessages>>
           ELSE /\ idx' = 0
                /\ messages' = PushSpread(messages, pushed)
                /\ defaultHistoryMessages' = Aliased(messages')
                /\ newMessages' = PushSpread(newMessages, pushed)
                /\ pc' = "second_call"
        /\ UNCHANGED <<registryVars, agentVars, redis, options, toolFunctions,
                       response, secondResponse, fault, result, obs>>

\* a dispatcher that lets the fault of a call escape
DispatchCallPropagates ==
    /\ pc = "dispatch"
    /\ idx <= Len(response.message.tool_calls)
    /\ LET message == CallOneFunction(response.message.tool_calls[idx],
                                      toolFunctions.functions)
       IN  IF IsErrorContent(message.content)
           THEN /\ Fail(Wrapped(<<"tool fault">>))
                /\ UNCHANGED <<registryVars, agentVars, defaultHistoryMessages, redis,
                               turnVars, obs>>
           ELSE DispatchPush(message)

\* lines 304-353, one pass of the loop
DispatchCall ==
    /\ pc = "dispatch"
    /\ idx <= Len(response.message.tool_calls)
    /\ DispatchPush(CallOneFunction(response.message.tool_calls[idx],
                                    toolFunctions.functions))

\* line 376: the provider call throws
SecondCallFault ==
    /\ pc = "second_call"
    /\ obs' = Submitted
    /\ Fail(Wrapped(<<"provider fault">>))
    /\ UNCHANGED <<registryVars, agentVars, defaultHistoryMessages, redis, turnVars>>

\* lines 376-396: the provider answers the second call
\* a second call whose tool_calls are dispatched as those of the first are
SecondCallDispatchesAgain(completion) ==
    /\ pc = "second_call"
    /\ completion.hasMessage
    /\ pc' = IF completion.message.tool_calls # <<>> THEN "dispatch" ELSE "done"
    /\ obs' = Submitted
    /\ IF completion.message.tool_calls # <<>>
       THEN /\ response' = completion
            /\ toolMessages' = <<>>
            /\ messages' = Append(messages, completion.message)
            /\ UNCHANGED <<secondResponse, result>>
       ELSE /\ secondResponse' = completion
            /\ result' = CompletionResult(<<response, completion>>,
                                          Append(newMessages, completion.message))
            /\ UNCHANGED <<response, toolMessages, messages>>
    /\ newMessages' = Append(newMessages, completion.message)
    /\ defaultHistoryMessages' = Aliased(messages')
    /\ idx' = 1
    /\ UNCHANGED <<registryVars, agentVars, redis, options, toolFunctions, fault>>

SecondCall(completion) ==
    /\ pc = "second_call"
    /\ obs' = Submitted
    /\ secondResponse' = completion
    /\ IF ~completion.hasMessage
       THEN /\ Fail(Wrapped(<<"No response message received from second tool query to OpenAI">>))
            /\ UNCHANGED <<newMessages, idx>>
       ELSE /\ UNCHANGED fault
            /\ pc' = IF Storage THEN "save" ELSE "done"
            /\ newMessages' =
                   IF Storage
                   THEN DropLeadingSystem(Append(newMessages, completion.message))
                   ELSE Append(newMessages, completion.message)
            /\ idx' = 1
            /\ result' = IF Storage THEN result
                         ELSE CompletionResult(<<response, completion>>, newMessages')
    /\ UNCHANGED <<registryVars, agentVars, defaultHistoryMessages, redis, options,
                   messages, toolFunctions, response, toolMessages>>

\* saveChatHistory lines 124-128, wrapped by line 523
SaveFault ==
    Wrapped(<<"Error saving chat history of user: ", options.user, ": ", "store fault">>)

\* saveChatHistory lines 116-121, one pass of the loop
SavePush ==
    /\ pc = "save"
    /\ idx <= Len(newMessages)
    /\ redis' = lPush(redis, UserKey(StoreId(options.user)),
                      JSONstringifyMessage(newMessages[idx]))
    /\ idx' = idx + 1
    /\ pc' = IF idx = Len(newMessages) THEN "save_read" ELSE "save"
    /\ UNCHANGED <<registryVars, agentVars, defaultHistoryMessages, options, messages,
                   newMessages, toolFunctions, response, secondResponse,
                   toolMessages, fault, result, obs>>

\* the store rejects an lPush
SavePushFault ==
    /\ pc = "save"
    /\ Fail(SaveFault)
    /\ UNCHANGED <<registryVars, agentVars, defaultHistoryMessages, redis, turnVars, obs>>

\* saveChatHistory line 122 answers, then the result is returned
SaveRead ==
    /\ pc = "save_read"
    /\ pc' = "done"
    /\ result' = CompletionResult(
                     IF secondResponse = NoCompletion THEN <<response>>
                     ELSE <<response, secondResponse>>, newMessages)
    /\ UNCHANGED <<registryVars, agentVars, defaultHistoryMessages, redis, turnVars,
                   fault, obs>>

\* the store rejects the read of line 122
SaveReadFault ==
    /\ pc = "save_read"
    /\ Fail(SaveFault)
    /\ UNCHANGED <<registryVars, agentVars, defaultHistoryMessages, redis, turnVars, obs>>

\* the caller has the result or the fault; the locals of the turn are gone
Return ==
    /\ pc \in {"done", "failed"}
    /\ pc' = "idle"
    /\ options' = NoOptions
    /\ messages' = <<>>
    /\ newMessages' = <<>>
    /\ toolFunctions' = NoToolFunctions
    /\ response' = NoCompletion
    /\ secondResponse' = NoCompletion
    /\ toolMessages' = <<>>
    /\ idx' = 0
    /\ fault' = NoError
    /\ result' = NoResult
    /\ obs' = Observed(obs.turn, redis, 0, <<>>, <<>>)
    /\ UNCHANGED <<registryVars, agentVars, defaultHistoryMessages, redis>>

\* The arguments of a call of the store or of a history operation of the agent,
\* kept with the log as the call found it
HistoryCall(userId, opts, msgs) ==
    /\ options' = TurnOptions("", Undefined, NoToolChoices, userId, opts)
    /\ newMessages' = msgs
    /\ obs' = Observed(obs.turn, redis, 0, <<>>, <<>>)
    /\ UNCHANGED <<registryVars, agentVars, defaultHistoryMessages, pc, messages,
                   toolFunctions, response, secondResponse, toolMessages, idx>>

\* AgentStorage.saveChatHistory when the store answers
saveChatHistory(userId, msgs) ==
    /\ pc = "idle"
    /\ LET id == StoreId(userId)
           stored == DropLeadingSystem(msgs)
       IN  /\ StoredCount(redis) + Len(stored) <= MaxLog
           /\ redis' = lPushAll(redis, UserKey(id), stored, 1)
           /\ result' = Result("messages", getStoredMessages(redis', id, NoHistoryOptions))
    /\ fault' = NoError
    /\ HistoryCall(userId, NoHistoryOptions, msgs)

\* AgentStorage.saveChatHistory when the store rejects the lPush after n
\* messages, or the read of line 122 when n is the number of messages
saveChatHistoryFault(userId, msgs, n) ==
    /\ pc = "idle"
    /\ LET id == StoreId(userId)
           stored == DropLeadingSystem(msgs)
       IN  /\ StoredCount(redis) + Len(stored) <= MaxLog
           /\ n <= Len(stored)
           /\ redis' = lPushAll(redis, UserKey(id), SubSeq(stored, 1, n), 1)
    /\ fault' = <<"Error saving chat history of user: ", userId, ": ", "store fault">>
    /\ result' = NoResult
    /\ HistoryCall(userId, NoHistoryOptions, msgs)

\* a purge that leaves the oldest entry of the log
deleteHistoryLeavesOldest(userId) ==
    /\ pc = "idle"
    /\ redis' = [redis EXCEPT ![UserKey(userId)] =
                     IF @ = <<>> THEN @ ELSE <<@[Len(@)]>>]
    /\ result' = Result("number", del(redis, UserKey(userId)))
    /\ fault' = NoError
    /\ HistoryCall(userId, NoHistoryOptions, <<>>)

\* a command of another client of the store, sent while a turn is under way:
\* the lPush or the del of a turn or of a history operation of that user
ConcurrentLPush(userId) ==
    /\ pc \notin {"idle", "done", "failed"}
    /\ StoredCount(redis) < MaxLog
    /\ redis' = lPush(redis, UserKey(userId), JSONstringifyMessage(UserMessage("other")))
    /\ UNCHANGED <<registryVars, agentVars, defaultHistoryMessages, pc, turnVars, fault,
                   result, obs>>
ConcurrentDel(userId) ==
    /\ pc \notin {"idle", "done", "failed"}
    /\ redis[UserKey(userId)] # <<>>
    /\ redis' = [redis EXCEPT ![UserKey(userId)] = <<>>]
    /\ UNCHANGED <<registryVars, agentVars, defaultHistoryMessages, pc, turnVars, fault,
                   result, obs>>

\* AgentStorage.saveChatHistory, step by step: the call up to its loop
SaveBegins(w, userId, msgs) ==
    /\ pc = "idle"
    /\ saving[w] = NoSave
    /\ saving' = [saving EXCEPT ![w] = Save(StoreId(userId), DropLeadingSystem(msgs), 0)]
    /\ UNCHANGED <<registryVars, system_instruction, Storage, historyOptions,
                   defaultHistoryMessages, redis, pc, turnVars, fault, result, obs>>

\* one pass of its loop: one lPush, awaited
SavePushes(w) ==
    /\ pc = "idle"
    /\ saving[w].pushed < Len(saving[w].messages)
    /\ redis' = lPush(redis, UserKey(saving[w].id),
                      JSONstringifyMessage(saving[w].messages[saving[w].pushed + 1]))
    /\ saving' = [saving EXCEPT ![w].pushed = @ + 1]
    /\ UNCHANGED <<registryVars, system_instruction, Storage, historyOptions,
                   defaultHistoryMessages, pc, turnVars, fault, result, obs>>

\* AgentStorage.deleteHistory when the store answers
deleteHistory(userId) ==
    /\ pc = "idle"
    /\ redis' = [redis EXCEPT ![UserKey(userId)] = <<>>]
    /\ result' = Result("number", del(redis, UserKey(userId)))
    /\ fault' = NoError
    /\ HistoryCall(userId, NoHistoryOptions, <<>>)

\* AgentStorage.deleteHistory when the store rejects the DEL
deleteHistoryFault(userId) ==
    /\ pc = "idle"
    /\ fault' = <<"Error deleting chat history of user: ", userId, ": ", "store fault">>
    /\ result' = NoResult
    /\ UNCHANGED redis
    /\ HistoryCall(userId, NoHistoryOptions, <<>>)

\* AgentStorage.getStoredMessages when the store answers
GetStoredMessages(userId, opts) ==
    /\ pc = "idle"
    /\ result' = Result("messages", getStoredMessages(redis, userId, opts))
    /\ fault' = NoError
    /\ UNCHANGED redis
    /\ HistoryCall(userId, opts, <<>>)

\* OpenAIAgent.deleteChatHistory when the store answers
deleteChatHistory(userId) ==
    /\ pc = "idle"
    /\ IF ~Storage
       THEN /\ fault' = <<"Agent storage is not initalized.">>
            /\ result' = NoResult
            /\ UNCHANGED redis
       ELSE /\ redis' = [redis EXCEPT ![UserKey(userId)] = <<>>]
            /\ fault' = NoError
            /\ result' = Result("boolean", TRUE)
    /\ HistoryCall(userId, NoHistoryOptions, <<>>)

\* OpenAIAgent.getChatHistory when the store answers
\* a read that demands a store, as deleteChatHistory does
getChatHistoryRequiresStore(userId, opts) ==
    /\ pc = "idle"
    /\ IF ~Storage
       THEN /\ fault' = <<"Agent storage is not initalized.">>
            /\ result' = NoResult
       ELSE /\ fault' = NoError
            /\ result' = Result("messages", getStoredMessages(redis, userId, opts))
    /\ UNCHANGED redis
    /\ HistoryCall(userId, opts, <<>>)

getChatHistory(userId, opts) ==
    /\ pc = "idle"
    /\ result' = Result("messages",
                        IF Storage THEN getStoredMessages(redis, userId, opts) ELSE <<>>)
    /\ fault' = NoError
    /\ UNCHANGED redis
    /\ HistoryCall(userId, opts, <<>>)

\* getTokensUsage(response.usage, secondResponse.usage)
GetTokensUsage ==
    /\ pc = "idle"
    /\ result = NoResult
    /\ result' = Result("usage", getTokensUsage(response.usage, secondResponse.usage))
    /\ fault' = NoError
    /\ UNCHANGED <<registryVars, agentVars, defaultHistoryMessages, redis, pc,
                   turnVars, obs>>

\* The steps of a running turn, the provider asking for calls of the given kinds
TurnStep(kinds) ==
    \/ Assemble
    \/ AssembleReadFault
    \/ ResolveTools
    \/ FirstCallFault
    \/ pc = "first_call" /\ \E c \in FirstCompletions(obs.turn, kinds) : FirstCall(c)
    \/ DispatchNoCalls
    \/ DispatchCall
    \/ SecondCallFault
    \/ pc = "second_call" /\ \E c \in SecondCompletions(obs.turn) : SecondCall(c)
    \/ SavePush
    \/ SavePushFault
    \/ SaveRead
    \/ SaveReadFault

\* Turns of one agent, one after the other
Next ==
    \/ loadToolFuctions("tools")
    \/ \E h \in AgentHistory : setStorage(h)
    \/ pc = "idle" /\ obs.turn < MaxTurns
       /\ \E o \in SpecOptions(obs.turn + 1) : createChatCompletion(o)
    \/ TurnStep(SpecCallKinds)
    \/ Return

Spec == Init /\ [][Next]_vars

\* One turn of an agent, with every kind of tool request and of tool call
OneTurnNext ==
    \/ loadToolFuctions("tools")
    \/ \E h \in AgentHistory : setStorage(h)
    \/ pc = "idle" /\ \E o \in OneTurnOptions : createChatCompletion(o)
    \/ TurnStep(CallKinds)

SpecOneTurn == Init /\ [][OneTurnNext]_vars

\* The registry alone: loads of every tool source, resolutions, a caller that
\* sets the source path itself
ToolNames == {"get_weather", "get_time", "fail_tool"}

RegistryNext ==
    \/ \E dirPath \in DirPaths \cup {""} : loadToolFuctions(dirPath)
    \/ \E dirPath \in {"tools", "tools2"} : loadToolsDirFiles(dirPath)
    \/ \E dirPath \in {"tools2", "countMismatch"} : AssignToolsDirPath(dirPath)
    \/ \E toolNames \in SeqsUpTo(ToolNames, MaxCalls) : ImportToolFunctions(toolNames)
    \/ instance.present /\ ImportToolFunctions(DefinitionNames(instance))

SpecRegistry == Init /\ [][RegistryNext]_vars

\* Calls of loadToolFuctions that overlap each other and resolutions
LoadDirs == {"tools", "tools2", "countMismatch", "duplicateDefinition",
             "prototypeName", "importFault", "noSuchDir"}

LoadsNext ==
    \/ \E l \in Loaders, dirPath \in LoadDirs : LoadBegins(l, dirPath)
    \/ \E l \in Loaders : LoadReadsFile(l)
    \/ \E l \in Loaders : LoadReturns(l)
    \/ \E toolNames \in {<<"get_weather">>, <<"get_time", "get_weather">>} :
           ImportToolFunctions(toolNames)
    \/ instance.present /\ ImportToolFunctions(DefinitionNames(instance))

InitLoads == Init /\ system_instruction = Undefined /\ defaultHistoryMessages = NoTemplate

SpecLoads == InitLoads /\ [][LoadsNext]_vars

\* The history store alone, called directly and through the agent
HistoryNext ==
    \/ setStorage(NoHistoryOptions)
    \/ \E userId \in {Undefined, "u1"}, msgs \in Batches :
           \/ saveChatHistory(userId, msgs)
           \/ \E n \in 0..Len(msgs) : saveChatHistoryFault(userId, msgs, n)
    \/ \E userId \in UserIds :
           \/ deleteHistory(userId)
           \/ deleteHistoryFault(userId)
           \/ deleteChatHistory(userId)
           \/ \E opts \in ReadOptionSets : GetStoredMessages(userId, opts)
           \/ \E opts \in {NoHistoryOptions, HistoryOptions(MaxLimit, "true")} :
                  getChatHistory(userId, opts)

InitHistory ==
    /\ Init
    /\ system_instruction = Undefined
    /\ defaultHistoryMessages = NoTemplate

SpecHistory == InitHistory /\ [][HistoryNext]_vars

\* History operations of two users on one store, then a turn of one of them
\* with the commands of other clients in between
UsersOptions(t) ==
    {TurnOptions(Questions[t], Undefined, c, u, NoHistoryOptions) :
        c \in {NoToolChoices, ToolChoices(TRUE, <<"get_weather">>)},
        u \in {Undefined, "u1"}}

UsersNext ==
    \/ setStorage(NoHistoryOptions)
    \/ loadToolFuctions("tools")
    \/ pc = "idle" /\ \E o \in UsersOptions(1) : createChatCompletion(o)
    \/ TurnStep(SpecCallKinds)
    \/ \E userId \in {Undefined, "u1"} : saveChatHistory(userId, <<AssistantMessage("a2")>>)
    \/ \E userId \in UserIds :
           \/ deleteHistory(userId)
           \/ GetStoredMessages(userId, NoHistoryOptions)
           \/ ConcurrentLPush(userId)
           \/ ConcurrentDel(userId)

SpecUsers == InitHistory /\ [][UsersNext]_vars

\* the calls of the response under dispatch
Calls == response.message.tool_calls

\* _callChosenFunctions step by step. The call: the check of the call list
_callChosenFunctions(calls) ==
    /\ pc = "idle"
    /\ instance.present
    /\ response' = Completion(TRUE, AssistantToolCalls(calls), ProviderUsage)
    /\ toolFunctions' = [defined |-> TRUE, functions |-> instance.tools.toolFunctions]
    /\ toolMessages' = <<>>
    /\ idx' = 1
    /\ IF calls = <<>>
       THEN /\ fault' = <<"No tool calls found in the response message">>
            /\ UNCHANGED pc
       ELSE /\ fault' = NoError
            /\ pc' = "dispatch"
    /\ result' = NoResult
    /\ UNCHANGED <<registryVars, agentVars, defaultHistoryMessages, redis, options,
                   messages, newMessages, secondResponse, obs>>

\* whether the pass of the loop for a call reaches currentFunction(parsedArgs)
Invokes(tool, functions) ==
    /\ Lookup(functions, tool.name).behaviour # "absent"
    /\ ParsesAsJSON(tool.arguments)

\* a pass that gives up at the first call that fails
PassEndsBatchOnError ==
    /\ toolMessages' = Append(toolMessages, CallOneFunction(Calls[idx],
                                                             toolFunctions.functions))
    /\ idx' = idx + 1
    /\ IF idx < Len(Calls) /\ ~IsErrorContent(toolMessages'[idx].content)
       THEN pc' = "dispatch" /\ UNCHANGED result
       ELSE pc' = "idle" /\ result' = Result("toolMessages", toolMessages')
    /\ UNCHANGED <<registryVars, agentVars, defaultHistoryMessages, redis, options,
                   messages, newMessages, toolFunctions, response, secondResponse,
                   fault, obs>>

\* the end of a pass of the loop: the message is pushed, the loop goes on
\* with the next call or the messages are returned
PassEnds ==
    /\ toolMessages' = Append(toolMessages, CallOneFunction(Calls[idx],
                                                             toolFunctions.functions))
    /\ idx' = idx + 1
    /\ IF idx < Len(Calls)
       THEN pc' = "dispatch" /\ UNCHANGED result
       ELSE pc' = "idle" /\ result' = Result("toolMessages", toolMessages')
    /\ UNCHANGED <<registryVars, agentVars, defaultHistoryMessages, redis, options,
                   messages, newMessages, toolFunctions, response, secondResponse,
                   fault, obs>>

\* a pass that throws before the function is called: no such function, or
\* arguments that do not parse
AnswersWithoutInvoking ==
    /\ pc = "dispatch"
    /\ ~Invokes(Calls[idx], toolFunctions.functions)
    /\ PassEnds

\* currentFunction(parsedArgs) is called and awaited
InvokesFunction ==
    /\ pc = "dispatch"
    /\ Invokes(Calls[idx], toolFunctions.functions)
    /\ pc' = "invoked"
    /\ UNCHANGED <<registryVars, agentVars, defaultHistoryMessages, redis, turnVars,
                   fault, result, obs>>

\* the awaited call returns or throws
FunctionSettles ==
    /\ pc = "invoked"
    /\ PassEnds

DispatcherNext ==
    \/ loadToolFuctions("tools")
    \/ pc = "idle" /\ \E ks \in SeqsUpTo(CallKinds, MaxCalls) :
                         _callChosenFunctions(ToolCallsOf(ks, 0))
    \/ AnswersWithoutInvoking
    \/ InvokesFunction
    \/ FunctionSettles

SpecDispatcher == InitHistory /\ [][DispatcherNext]_vars

\* Appends that overlap: each of two callers files one batch
SavesNext ==
    \E w \in Savers :
        \/ \E userId \in {Undefined, "u1"}, msgs \in SaverBatches[w] :
               SaveBegins(w, userId, msgs)
        \/ SavePushes(w)

SpecSaves == InitHistory /\ [][SavesNext]_vars

\* The aggregation of usage alone, over every pair of operands
InitUsage ==
    /\ instance = NoInstance
    /\ toolsDirPath = Undefined
    /\ loading = [l \in Loaders |-> NoLoad]
    /\ saving = [w \in Savers |-> NoSave]
    /\ system_instruction = Undefined
    /\ defaultHistoryMessages = NoTemplate
    /\ Storage = FALSE
    /\ historyOptions = NoHistoryOptions
    /\ redis = [k \in Keys |-> <<>>]
    /\ pc = "idle"
    /\ options = NoOptions
    /\ messages = <<>>
    /\ newMessages = <<>>
    /\ toolFunctions = NoToolFunctions
    /\ \E usage1 \in OptionalUsages :
           response = Completion(TRUE, AssistantMessage(""), usage1)
    /\ \E usage2 \in OptionalUsages :
           secondResponse = Completion(TRUE, AssistantMessage(""), usage2)
    /\ toolMessages = <<>>
    /\ idx = 0
    /\ fault = NoError
    /\ result = NoResult
    /\ obs = Observed(0, redis, 0, <<>>, <<>>)

UsageNext == GetTokensUsage

SpecUsage == InitUsage /\ [][UsageNext]_vars

-----------------------------------------------------------------------------
(* Properties *)

UserLog(r, user) == r[UserKey(StoreId(user))]

\* C1: a turn that ended in a fault left the log of its user as it was when the
\* turn began
C1_FailedTurnStoresNothing ==
    pc = "failed" => UserLog(redis, options.user) = UserLog(obs.logBefore, options.user)

\* the i-th message of the batch answers the i-th call
AnswersCall(i) ==
    /\ toolMessages[i].role = "tool"
    /\ toolMessages[i].tool_call_id = Calls[i].id

\* C2: the dispatcher pushes one tool message per call, the i-th with the id of
\* the i-th call: so far while the batch runs, for every call once it is over
C2_OneMessagePerCall ==
    /\ pc = "dispatch" /\ Calls # <<>> =>
          /\ Len(toolMessages) = idx - 1
          /\ \A i \in 1..Len(toolMessages) : AnswersCall(i)
    /\ pc = "second_call" =>
          /\ Len(toolMessages) = Len(Calls)
          /\ \A i \in 1..Len(Calls) : AnswersCall(i)

C2_Witness ==
    /\ pc = "second_call"
    /\ Len(Calls) = MaxCalls
    /\ IsErrorContent(toolMessages[1].content)
    /\ ~IsErrorContent(toolMessages[MaxCalls].content)

\* the failures the claim C3 lists, for a call and the implementation map
NoOwnImplementation(tool, functions) == tool.name \notin DOMAIN functions
ListedFailure(tool, functions) ==
    \/ NoOwnImplementation(tool, functions)
    \/ ~ParsesAsJSON(tool.arguments)
    \/ functions[tool.name].behaviour \in {"throws", "undefined"}

\* C3: a tool message carries an error payload exactly when its call names no
\* implementation of the map, has unparsable arguments, or its implementation
\* throws or returns undefined; otherwise it is the serialized return value
C3_ErrorIffListedFailure ==
    pc \in {"dispatch", "second_call"} =>
        \A i \in 1..Len(toolMessages) :
            LET functions == toolFunctions.functions
            IN  /\ IsErrorContent(toolMessages[i].content)
                       <=> ListedFailure(Calls[i], functions)
                /\ ~ListedFailure(Calls[i], functions) =>
                       toolMessages[i].content =
                           ResultContent(functions[Calls[i].name].value)

\* C4: a batch of calls never fails the turn: from DISPATCH with calls the turn
\* goes on dispatching or to SECOND_CALL, and the request it then submits ends with
\* one tool message per call
C4_DispatchNeverFails ==
    [][/\ pc = "dispatch" /\ Calls # <<>> => pc' \in {"dispatch", "second_call"}
       /\ pc = "second_call" /\ pc' # "second_call" =>
             /\ obs'.providerCalls = 2
             /\ LET request == obs'.requests[2]
                    n == Len(Calls)
                IN  /\ Len(request) > n
                    /\ \A i \in 1..n :
                          /\ request[Len(request) - n + i].role = "tool"
                          /\ request[Len(request) - n + i].tool_call_id = Calls[i].id]_vars

C4_Witness ==
    /\ obs.providerCalls = 2
    /\ Len(toolMessages) = MaxCalls
    /\ \A i \in 1..MaxCalls : IsErrorContent(toolMessages[i].content)
    /\ {Calls[i].name : i \in 1..MaxCalls} = {"no_such_tool", "fail_tool"}

\* the errors of a load, as against those of a resolution
LoadFailed(error) ==
    /\ error # NoError
    /\ error[1] \notin {"Tools directory path not set. Call loadToolsDirFiles with your tools directory path first.",
                        "Tool not found: The following tools were not found: ",
                        "Tools directory path required."}

\* C5: a load that failed left the registry instance and the recorded path as they
\* were, and the names of a snapshot it found resolve as they did before it
C5_FailedLoadChangesNothing ==
    [][LoadFailed(fault') =>
          /\ instance' = instance
          /\ toolsDirPath' = toolsDirPath
          /\ instance.present =>
                importToolFunctions(instance', toolsDirPath', DefinitionNames(instance))
                    = importToolFunctions(instance, toolsDirPath,
                                          DefinitionNames(instance))
      ]_<<result.kind, vars>>

C5_Witness ==
    /\ instance.present
    /\ toolsDirPath = "tools"
    /\ LoadFailed(fault)
    /\ fault[1] = "Mismatch between number of function definitions ("

\* every tool message of the request answers a call of an assistant message
\* before it
WellReferenced(request) ==
    \A i \in 1..Len(request) :
        request[i].role = "tool" =>
            \E j \in 1..(i - 1) :
                /\ request[j].role = "assistant"
                /\ request[j].has_tool_calls
                /\ \E k \in 1..Len(request[j].tool_calls) :
                       request[j].tool_calls[k].id = request[i].tool_call_id

\* C6: in every request submitted to the provider each tool message references
\* a call of an assistant message that precedes it
C6_ToolMessagesReferenceCalls ==
    \A n \in 1..Len(obs.requests) : WellReferenced(obs.requests[n])

\* the phases of a turn
Phase ==
    CASE pc \in {"assemble", "resolve"} -> "ASSEMBLE"
      [] pc = "first_call" -> "FIRST_CALL"
      [] pc = "dispatch" -> "DISPATCH"
      [] pc = "second_call" -> "SECOND_CALL"
      [] pc \in {"save", "save_read", "done"} -> "DONE"
      [] OTHER -> "NONE"

RequestedTools == options.tool_choices.names # <<>>

\* C7: the phases follow ASSEMBLE, FIRST_CALL, then DONE or DISPATCH, SECOND_CALL,
\* DONE; after FIRST_CALL the turn dispatches exactly when the response carries
\* tool_calls and the turn requested tools, and else ends after one provider call
C7_PhaseOrder ==
    [][/\ pc' # "failed" /\ Phase' # Phase =>
             \/ Phase = "NONE" /\ Phase' = "ASSEMBLE"
             \/ Phase = "ASSEMBLE" /\ Phase' = "FIRST_CALL"
             \/ Phase = "FIRST_CALL" /\ Phase' \in {"DISPATCH", "DONE"}
             \/ Phase = "DISPATCH" /\ Phase' = "SECOND_CALL"
             \/ Phase = "SECOND_CALL" /\ Phase' = "DONE"
             \/ Phase = "DONE" /\ Phase' = "NONE"
       /\ Phase = "FIRST_CALL" /\ Phase' \in {"DISPATCH", "DONE"} =>
             /\ Phase' = "DISPATCH"
                    <=> response'.message.has_tool_calls /\ RequestedTools
             /\ Phase' = "DONE" => obs'.providerCalls = 1
       /\ Phase = "DONE" /\ secondResponse = NoCompletion => obs'.providerCalls <= 1]_vars

C7_Witness ==
    /\ pc = "done"
    /\ response.message.has_tool_calls
    /\ response.message.tool_calls # <<>>
    /\ ~RequestedTools
    /\ obs.providerCalls = 1

\* the request as assembled, before the first provider call
Assembled == pc \in {"resolve", "first_call"}

PerCallInstructions == {m \in Instructions : Truthy(m)}

\* C8: a turn without a per-call instruction sends the default of the agent as its
\* system message, and no instruction of an earlier turn
C8_InstructionForThatCallOnly ==
    Assembled /\ ~Truthy(options.system_instruction) =>
        /\ Truthy(system_instruction) => messages[1] = SystemMessage(system_instruction)
        /\ \A i \in 1..Len(messages) :
               messages[i].role = "system" => messages[i].content[1] \notin PerCallInstructions

ResolvedInstruction ==
    _handleSystemInstructionMessage(system_instruction, options.system_instruction)

\* C9: with a non-empty instruction resolved the request starts with one system
\* message, that instruction, and the leading system message of the history is
\* gone; with none resolved the request is the history and the user message
C9_OneLeadingSystemMessage ==
    Assembled =>
        IF Truthy(ResolvedInstruction.content[1])
        THEN /\ messages[1] = ResolvedInstruction
             /\ messages[2].role # "system"
             /\ Len(messages) =
                    Len(obs.contextMessages) + 1
                    + (IF obs.contextMessages # <<>>
                          /\ obs.contextMessages[1].role = "system" THEN 0 ELSE 1)
        ELSE messages = Append(obs.contextMessages, UserMessage(options.message))

C9_Witness ==
    /\ Assembled
    /\ obs.turn = 2
    /\ options.system_instruction = "percall"
    /\ obs.contextMessages # <<>>
    /\ obs.contextMessages[1].role = "system"
    /\ obs.contextMessages[1] # ResolvedInstruction

\* C10: the fault of a failed turn is the turn-failed fault around its cause
C10_FaultIsWrapped ==
    pc = "failed" => fault[1] = "Chat completion failed: " /\ Len(fault) > 1

\* the log a history call found and the log it left, for the user it names
LogBefore == UserLog(obs.logBefore, options.user)
LogAfter == UserLog(redis, options.user)

\* C11: a purge returns the number of messages it removed from the log of its
\* user, 0 for an empty or absent log
C11_PurgeReturnsMessageCount ==
    result.kind = "number" => result.value = Len(LogBefore)

\* a step that purges the log of the user: the store's deleteHistory, or the
\* agent's deleteChatHistory with a store attached
Purges(userId) ==
    /\ options'.user = userId
    /\ \/ result'.kind = "number" /\ deleteHistory(userId)
       \/ result'.kind = "boolean" /\ Storage /\ deleteChatHistory(userId)

\* C12: after a purge the log of the user is empty and every read of it returns
\* the empty sequence; a purge is no fault, whether the log held messages or was
\* empty or absent, and it leaves an empty log and the other logs as they were
C12_PurgeIdempotent ==
    [][\A userId \in UserIds :
          Purges(userId) =>
              /\ fault' = NoError
              /\ redis'[UserKey(userId)] = <<>>
              /\ \A opts \in ReadOptionSets :
                     getStoredMessages(redis', userId, opts) = <<>>
              /\ \A key \in Keys \ {UserKey(userId)} : redis'[key] = redis[key]
              /\ redis[UserKey(userId)] = <<>> => redis' = redis]_vars

C12_Witness ==
    /\ result.kind = "number"
    /\ result.value = 0
    /\ fault = NoError
    /\ LogBefore = <<>>
    /\ LogAfter = <<>>
    /\ \E key \in Keys : redis[key] # <<>>

\* a step that reads the log of the user: the store's getStoredMessages, or the
\* agent's getChatHistory with a store attached
Reads(userId, opts) ==
    /\ result'.kind = "messages"
    /\ options'.user = userId
    /\ options'.history = opts
    /\ GetStoredMessages(userId, opts) \/ (Storage /\ getChatHistory(userId, opts))

\* the messages of a log in the order of their appends
Chronological(r, userId) ==
    LET log == r[UserKey(userId)]
    IN  [i \in 1..Len(log) |-> JSONparseMessage(log[Len(log) + 1 - i])]

\* the k last messages of a sequence, all of them when it has fewer
MostRecent(s, k) == SubSeq(s, Len(s) - Min(k, Len(s)) + 1, Len(s))

\* what a read fetches: nothing with limit 0, the most recent entries up to the
\* limit, the whole log without one
Fetched(r, userId, opts) ==
    IF opts.appended_messages = 0 THEN <<>>
    ELSE IF opts.appended_messages = Unset THEN Chronological(r, userId)
    ELSE MostRecent(Chronological(r, userId), opts.appended_messages)

\* C13: without the filter a read with limit 0 returns nothing, a read with
\* limit k > 0 the min(k, n) most recently appended messages in the order of
\* their appends, a read without limit the whole log in that order
C13_ReadLimit ==
    [][\A userId \in UserIds, opts \in ReadOptionSets :
          Reads(userId, opts) /\ opts.remove_tool_messages # "true" =>
              result'.value = Fetched(redis, userId, opts)]_vars

C13_Witness ==
    /\ result.kind = "messages"
    /\ options.history.appended_messages = MaxLimit
    /\ options.history.remove_tool_messages # "true"
    /\ Len(LogAfter) > MaxLimit
    /\ result.value = MostRecent(Chronological(redis, options.user), MaxLimit)
    /\ result.value[1].role # result.value[MaxLimit].role

\* a message of a clean transcript
Clean(m) == m.role = "user" \/ (m.role = "assistant" /\ ~m.has_tool_calls)

\* the clean messages of a sequence, in their order
RECURSIVE CleanOf(_)
CleanOf(s) ==
    IF Len(s) = 0 THEN <<>>
    ELSE (IF Clean(s[1]) THEN <<s[1]>> ELSE <<>>) \o CleanOf(SubSeq(s, 2, Len(s)))

\* C14: a read with the filter returns no tool message and no assistant message
\* with tool_calls: it returns the user messages and the assistant messages
\* without tool_calls of the fetched entries, in their order in the log
C14_FilteredRead ==
    [][\A userId \in UserIds, opts \in ReadOptionSets :
          Reads(userId, opts) /\ opts.remove_tool_messages = "true" =>
              /\ \A i \in 1..Len(result'.value) :
                     /\ result'.value[i].role # "tool"
                     /\ ~result'.value[i].has_tool_calls
              /\ result'.value = CleanOf(Fetched(redis, userId, opts))]_vars

C14_Witness ==
    /\ result.kind = "messages"
    /\ options.history.remove_tool_messages = "true"
    /\ options.history.appended_messages = Unset
    /\ \E i \in 1..Len(LogAfter) : LogAfter[i][1] = "tool"
    /\ \E i \in 1..Len(LogAfter) : LogAfter[i][1] = "assistant" /\ LogAfter[i][3]
    /\ Len(result.value) = 1
    /\ result.value[1].role = "user"

\* a step that appends the messages to the log of the user
Appends(userId, msgs) ==
    /\ result'.kind = "messages"
    /\ options'.user = userId
    /\ newMessages' = msgs
    /\ saveChatHistory(userId, msgs)

\* C15: an append drops the first message when it is a system message and puts
\* the others, in their order, at the recent end of the log of key user:<id>,
\* the other logs left as they were; it returns the log, so that on an empty log
\* the append of [system, m1, m2] gives the unlimited read [m1, m2]
C15_AppendDropsLeadingSystem ==
    [][\A userId \in UserIds \cup {Undefined}, msgs \in Batches :
          Appends(userId, msgs) =>
              LET id == IF userId = Undefined THEN "default" ELSE userId
                  kept == IF msgs # <<>> /\ msgs[1].role = "system"
                          THEN SubSeq(msgs, 2, Len(msgs)) ELSE msgs
                  before == Chronological(redis, id)
                  after == Chronological(redis', id)
              IN  /\ Len(after) = Len(before) + Len(kept)
                  /\ \A i \in 1..Len(before) : after[i] = before[i]
                  /\ \A i \in 1..Len(kept) : after[Len(before) + i] = kept[i]
                  /\ \A key \in Keys \ {UserKey(id)} : redis'[key] = redis[key]
                  /\ getStoredMessages(redis', id, NoHistoryOptions) = after
                  /\ result'.value = after]_vars

C15_Witness ==
    /\ result.kind = "messages"
    /\ Len(newMessages) = 3
    /\ newMessages[1].role = "system"
    /\ LogBefore = <<>>
    /\ result.value = <<newMessages[2], newMessages[3]>>
    /\ getStoredMessages(redis, StoreId(options.user), NoHistoryOptions)
           = <<newMessages[2], newMessages[3]>>

\* a token count, 0 when it is left out
Counted(tokens) == IF tokens = Unset THEN 0 ELSE tokens

\* C16: the aggregate of two usages is their sum field by field, a field or an
\* operand left out counting as 0; the aggregate of no usage and u is u
C16_UsageAggregation ==
    result.kind = "usage" =>
        LET a == response.usage
            b == secondResponse.usage
        IN  /\ result.value.prompt_tokens
                   = Counted(a.prompt_tokens) + Counted(b.prompt_tokens)
            /\ result.value.completion_tokens
                   = Counted(a.completion_tokens) + Counted(b.completion_tokens)
            /\ result.value.total_tokens
                   = Counted(a.total_tokens) + Counted(b.total_tokens)
            /\ (a = NoUsage /\ Unset \notin {b.prompt_tokens, b.completion_tokens,
                                             b.total_tokens})
                   => result.value = b

C16_Witness ==
    /\ result.kind = "usage"
    /\ response.usage = NoUsage
    /\ secondResponse.usage = Usage(1, MaxTokens - 1, MaxTokens)
    /\ result.value = secondResponse.usage

\* a turn that requested tools and whose first response carries a tool call
ToolTurn ==
    /\ RequestedTools
    /\ response.hasMessage
    /\ response.message.has_tool_calls
    /\ Calls # <<>>

\* C17: in a turn that requested tools and whose first response carries at least
\* one tool call, the provider is called a second time with the request of the
\* first call, the response message and the tool messages of the dispatch; the
\* result holds the two raw responses, first then second, and total_usage is
\* the sum of their usages field by field
C17_ToolTurnTwoResponses ==
    ToolTurn =>
        /\ pc \in {"save", "save_read", "done", "failed"} =>
              /\ obs.providerCalls = 2
              /\ Len(toolMessages) = Len(Calls)
              /\ obs.requests
                     = <<obs.requests[1],
                         obs.requests[1] \o <<response.message>> \o toolMessages>>
        /\ pc = "done" =>
              /\ result.kind = "completion"
              /\ result.value.completions = <<response, secondResponse>>
              /\ result.value.total_usage.prompt_tokens
                     = response.usage.prompt_tokens + secondResponse.usage.prompt_tokens
              /\ result.value.total_usage.completion_tokens
                     = response.usage.completion_tokens
                           + secondResponse.usage.completion_tokens
              /\ result.value.total_usage.total_tokens
                     = response.usage.total_tokens + secondResponse.usage.total_tokens

C17_Witness ==
    /\ pc = "done"
    /\ ToolTurn
    /\ Len(Calls) = MaxCalls
    /\ secondResponse.usage # response.usage
    /\ result.value.completions = <<response, secondResponse>>
    /\ result.value.total_usage = Usage(7, 5, 12)

\* a turn that requested no tools and whose response carries no tool_calls
PlainTurn ==
    /\ ~RequestedTools
    /\ response.hasMessage
    /\ ~response.message.has_tool_calls

\* C18: in a turn that requested no tools and whose response carries no
\* tool_calls the provider is called once, and the result holds that one raw
\* response, its usage as total_usage, and the new user message followed by the
\* assistant message as completion_messages
C18_PlainTurnOneResponse ==
    PlainTurn =>
        /\ pc \in {"save", "save_read", "done", "failed"} =>
              /\ obs.providerCalls = 1
              /\ Len(obs.requests) = 1
              /\ secondResponse = NoCompletion
        /\ pc = "done" =>
              /\ result.kind = "completion"
              /\ result.value.completions = <<response>>
              /\ result.value.total_usage = response.usage
              /\ result.value.completion_messages
                     = <<UserMessage(options.message), response.message>>

C18_Witness ==
    /\ pc = "done"
    /\ PlainTurn
    /\ Storage
    /\ options.system_instruction = "percall"
    /\ result.value.total_usage = ProviderUsage
    /\ result.value.completion_messages
           = <<UserMessage(Questions[1]), AssistantMessage("answer")>>

\* The exports of the tool files of a directory, each with the file it is in
RECURSIVE ExportsOf(_, _)
ExportsOf(files, i) ==
    IF i > Len(files) THEN <<>>
    ELSE (IF files[i].ext \in {"js", "ts"} /\ files[i].isFile
          THEN [k \in 1..Len(files[i].exports) |->
                   [export |-> files[i].exports[k], origin |-> i]]
          ELSE <<>>)
         \o ExportsOf(files, i + 1)

IsDefinitionExport(e) == ~e.export.isFunction
IsFunctionExport(e) == e.export.isFunction

\* the definitions of a tool source, in the order of its files, and the names
\* of its implementations
SourceDefinitions(dirPath) ==
    LET defs == SelectSeq(ExportsOf(DirectoryAt(dirPath).files, 1), IsDefinitionExport)
    IN  [k \in 1..Len(defs) |-> [name |-> defs[k].export.name, origin |-> defs[k].origin]]
SourceImplementations(dirPath) ==
    LET fns == SelectSeq(ExportsOf(DirectoryAt(dirPath).files, 1), IsFunctionExport)
    IN  {fns[k].export.fnName : k \in 1..Len(fns)}

\* a source that can be read, whose definitions are valid, as many as its
\* implementations, each with an implementation of its name
MatchedSource(dirPath) ==
    LET dir == DirectoryAt(dirPath)
        defs == SourceDefinitions(dirPath)
        exports == ExportsOf(dir.files, 1)
    IN  /\ dir.access
        /\ \A i \in 1..Len(dir.files) : dir.files[i].imports
        /\ \A k \in 1..Len(exports) :
               IsDefinitionExport(exports[k]) =>
                   validateChatCompletionTool(exports[k].export) = NoError
        /\ Len(defs) = Cardinality(SourceImplementations(dirPath))
        /\ \A k \in 1..Len(defs) : defs[k].name \in SourceImplementations(dirPath)

\* a step in which every definition name of the snapshot is resolved
ResolvesAllNames ==
    /\ instance.present
    /\ Truthy(toolsDirPath)
    /\ fault' # NoError \/ result'.kind = "tools"
    /\ ImportToolFunctions(DefinitionNames(instance))

\* C19: the load of a source with as many definitions as implementations, each
\* definition with an implementation of its name, succeeds and publishes the
\* definitions and implementations of the source; resolving all the definition
\* names of the snapshot then succeeds and returns every definition of the
\* snapshot and its implementation map
C19_MatchedSourceLoadsAndResolves ==
    [][/\ \A dirPath \in DirPaths :
             MatchedSource(dirPath) /\ (fault' # NoError \/ result'.kind = "boolean")
             /\ loadToolFuctions(dirPath) =>
                 /\ fault' = NoError
                 /\ result' = Result("boolean", TRUE)
                 /\ instance'.present
                 /\ instance'.tools.toolDefinitions = SourceDefinitions(dirPath)
                 /\ DOMAIN instance'.tools.toolFunctions = SourceImplementations(dirPath)
       /\ ResolvesAllNames =>
             /\ fault' = NoError
             /\ result'.kind = "tools"
             /\ \A i \in 1..Len(instance.tools.toolDefinitions) :
                    \E k \in 1..Len(result'.value.toolChoices) :
                        result'.value.toolChoices[k] = instance.tools.toolDefinitions[i]
             /\ result'.value.toolFunctions = instance.tools.toolFunctions
      ]_<<result.kind, vars>>

\* a step in which the names are resolved against a snapshot, the one found or
\* the one the lazy load published
Resolves(toolNames) ==
    /\ instance'.present
    /\ fault' # NoError \/ result'.kind = "tools"
    /\ ImportToolFunctions(toolNames)

\* C20: a resolution against a snapshot fails exactly when a requested name has
\* no definition in the snapshot, and the fault lists every such name in request
\* order; a resolution that succeeds returns one definition of the snapshot per
\* requested name, in request order, and all the implementations of the snapshot
C20_ResolveListsEveryMissingName ==
    [][\A toolNames \in SeqsUpTo(ToolNames, MaxCalls) :
          Resolves(toolNames) =>
              LET snapshot == instance'.tools
                  NotDefined(name) ==
                      \A i \in 1..Len(snapshot.toolDefinitions) :
                          snapshot.toolDefinitions[i].name # name
                  missing == SelectSeq(toolNames, NotDefined)
              IN  /\ fault' # NoError <=> missing # <<>>
                  /\ fault' # NoError =>
                         fault' = <<"Tool not found: The following tools were not found: ">>
                                      \o missing
                  /\ fault' = NoError =>
                         /\ Len(result'.value.toolChoices) = Len(toolNames)
                         /\ \A i \in 1..Len(toolNames) :
                                /\ result'.value.toolChoices[i].name = toolNames[i]
                                /\ \E k \in 1..Len(snapshot.toolDefinitions) :
                                       snapshot.toolDefinitions[k]
                                           = result'.value.toolChoices[i]
                         /\ result'.value.toolFunctions = snapshot.toolFunctions
      ]_<<result.kind, vars>>

C20_Witness ==
    /\ instance.present
    /\ DefinitionNames(instance) = <<"get_time">>
    /\ Len(fault) = MaxCalls + 1
    /\ fault[1] = "Tool not found: The following tools were not found: "
    /\ fault[2] # fault[3]

PathNotSet(error) ==
    /\ error # NoError
    /\ error[1] = "Tools directory path not set. Call loadToolsDirFiles with your tools directory path first."

\* C21: a resolution looks the names up in the snapshot whenever there is one
\* and leaves it as it is; it loads, from the recorded path, only when there is
\* none; it fails for want of a path exactly when there is neither a snapshot
\* nor a recorded path
C21_LazyLoadOnlyWithoutSnapshot ==
    [][\A toolNames \in SeqsUpTo(ToolNames, MaxCalls) :
          /\ fault' # NoError \/ result'.kind = "tools"
          /\ ImportToolFunctions(toolNames)
          => /\ PathNotSet(fault') <=> (~instance.present /\ ~Truthy(toolsDirPath))
             /\ instance.present =>
                   /\ instance' = instance
                   /\ fault' = NoError =>
                         /\ result'.value.toolChoices
                                = FindDefinitions(instance.tools.toolDefinitions,
                                                  toolNames, 1)
                         /\ result'.value.toolFunctions = instance.tools.toolFunctions
             /\ ~instance.present /\ Truthy(toolsDirPath) =>
                   instance' = PublishedBy(LoadResult(toolsDirPath), instance)
      ]_<<result.kind, vars>>

\* tools that are all that one load of a source built, the load having thrown
\* nothing
WholeLoadOf(tools, dirPath) ==
    /\ LoadResult(dirPath).error = NoError
    /\ LoadResult(dirPath).tools = tools

\* as many definitions as implementations, and each definition with an
\* implementation of its name
Matched(tools) ==
    /\ Len(tools.toolDefinitions) = Cardinality(DOMAIN tools.toolFunctions)
    /\ \A i \in 1..Len(tools.toolDefinitions) :
           tools.toolDefinitions[i].name \in DOMAIN tools.toolFunctions

\* C22: while loads overlap each other and resolutions, the registry holds no
\* snapshot or all that one load that threw nothing built, with as many
\* definitions as implementations and each definition implemented under its
\* name; what a resolution returns is taken from one such snapshot
C22_SnapshotIsOneWholeLoad ==
    /\ instance.present =>
          /\ \E dirPath \in LoadDirs : WholeLoadOf(instance.tools, dirPath)
          /\ Matched(instance.tools)
    /\ result.kind = "tools" =>
          \E dirPath \in LoadDirs :
              /\ LoadResult(dirPath).error = NoError
              /\ Matched(LoadResult(dirPath).tools)
              /\ result.value.toolFunctions = LoadResult(dirPath).tools.toolFunctions
              /\ \A k \in 1..Len(result.value.toolChoices) :
                     \E i \in 1..Len(LoadResult(dirPath).tools.toolDefinitions) :
                         LoadResult(dirPath).tools.toolDefinitions[i]
                             = result.value.toolChoices[k]

\* C23: in the published snapshot no two definitions have the same name, and
\* each definition has an implementation under its name
C23_DefinitionNamesDistinct ==
    instance.present =>
        /\ \A i, j \in 1..Len(instance.tools.toolDefinitions) :
               instance.tools.toolDefinitions[i].name
                   = instance.tools.toolDefinitions[j].name => i = j
        /\ \A i \in 1..Len(instance.tools.toolDefinitions) :
               instance.tools.toolDefinitions[i].name
                   \in DOMAIN instance.tools.toolFunctions

\* the last file of a source that exports a definition, or a function, of the name
LastDefining(dirPath, name) ==
    LET defs == SourceDefinitions(dirPath)
        at == {k \in 1..Len(defs) : defs[k].name = name}
    IN  defs[CHOOSE k \in at : \A j \in at : j <= k].origin
LastImplementing(dirPath, name) ==
    LET fns == SelectSeq(ExportsOf(DirectoryAt(dirPath).files, 1), IsFunctionExport)
        at == {k \in 1..Len(fns) : fns[k].export.fnName = name}
    IN  fns[CHOOSE k \in at : \A j \in at : j <= k].origin

\* files of the source that export a definition of the name
FilesDefining(dirPath, name) ==
    {SourceDefinitions(dirPath)[k].origin :
        k \in {j \in 1..Len(SourceDefinitions(dirPath)) :
                  SourceDefinitions(dirPath)[j].name = name}}

\* C24: when two files of the loaded source define a name, a resolution of the
\* name returns the definition and the implementation of the file read last
C24_LastLoadedWins ==
    result.kind = "tools" /\ instance.present =>
        \A dirPath \in DirPaths :
            WholeLoadOf(instance.tools, dirPath) =>
                \A k \in 1..Len(result.value.toolChoices) :
                    LET name == result.value.toolChoices[k].name
                    IN  Cardinality(FilesDefining(dirPath, name)) > 1 =>
                            /\ result.value.toolChoices[k].origin
                                   = LastDefining(dirPath, name)
                            /\ result.value.toolFunctions[name].origin
                                   = LastImplementing(dirPath, name)

\* a response that came back without a message
WithoutMessage(completion) == completion # NoCompletion /\ ~completion.hasMessage

\* C25: once the first response has come without a message the turn has failed
\* with that fault after one provider call, and once the second has, after two;
\* nothing was dispatched after it, no result exists and the store is as the
\* turn found it
C25_MissingMessageIsFatal ==
    /\ WithoutMessage(response) =>
          /\ pc = "failed"
          /\ fault = Wrapped(<<"No response message received from OpenAI">>)
          /\ obs.providerCalls = 1
          /\ Len(obs.requests) = 1
          /\ toolMessages = <<>>
          /\ secondResponse = NoCompletion
          /\ result = NoResult
          /\ redis = obs.logBefore
    /\ WithoutMessage(secondResponse) =>
          /\ pc = "failed"
          /\ fault = Wrapped(<<"No response message received from second tool query to OpenAI">>)
          /\ obs.providerCalls = 2
          /\ Len(obs.requests) = 2
          /\ result = NoResult
          /\ redis = obs.logBefore

C25_Witness ==
    /\ WithoutMessage(secondResponse)
    /\ Storage
    /\ Len(toolMessages) = MaxCalls
    /\ obs.providerCalls = 2
    /\ pc = "failed"

\* the user whose log a call addresses, an absent or empty id standing for the
\* user "default"
LogOwner(user) == IF user \in {Undefined, ""} THEN "default" ELSE user

OtherLogsUnchanged(user) ==
    \A id \in UserIds \ {LogOwner(user)} : redis'[UserKey(id)] = redis[UserKey(id)]

\* C26: a step of a turn changes no log but the one of the turn's user, and an
\* append, a read or a purge no log but the one of the user it is called for,
\* whatever other clients of the store do in between
C26_OtherLogsUnchanged ==
    [][/\ pc # "idle" /\ (pc' # pc \/ idx' # idx) => OtherLogsUnchanged(options.user)
       /\ pc = "idle" => OtherLogsUnchanged(options'.user)
      ]_<<redis, vars>>

C26_Witness ==
    /\ pc = "done"
    /\ options.user = "u1"
    /\ Len(redis[UserKey("u1")]) > Len(obs.logBefore[UserKey("u1")])
    /\ redis[UserKey("default")] # <<>>
    /\ redis[UserKey("default")] = obs.logBefore[UserKey("default")]

\* C27: getChatHistory of an agent without a store returns the empty sequence
\* and throws nothing, for every user id and every options value, whatever the
\* store holds for that user
C27_NoStoreNoHistory ==
    [][\A userId \in UserIds, opts \in {NoHistoryOptions, HistoryOptions(MaxLimit, "true")} :
           (/\ ~Storage
            /\ fault' # NoError \/ result'.kind = "messages"
            /\ getChatHistory(userId, opts))
           => /\ fault' = NoError
              /\ result' = Result("messages", <<>>)
              /\ redis' = redis
      ]_<<result.kind, vars>>

C27_Witness ==
    /\ ~Storage
    /\ fault = NoError
    /\ result.kind = "messages"
    /\ result.value = <<>>
    /\ options.user = "u1"
    /\ options.history = HistoryOptions(MaxLimit, "true")
    /\ newMessages = <<>>
    /\ redis[UserKey("u1")] # <<>>
    /\ redis = obs.logBefore

\* the messages a finished turn has added: the user message, the assistant
\* message and, after a dispatch, one tool message per call and the final
\* assistant message
TurnDelta ==
    IF obs.providerCalls = 1
    THEN <<UserMessage(options.message), response.message>>
    ELSE <<UserMessage(options.message), response.message>>
             \o [i \in 1..Len(response.message.tool_calls) |-> toolMessages[i]]
             \o <<secondResponse.message>>

AnswersCallsInOrder ==
    /\ Len(toolMessages) = Len(response.message.tool_calls)
    /\ \A i \in 1..Len(toolMessages) :
           /\ toolMessages[i].role = "tool"
           /\ toolMessages[i].tool_call_id = response.message.tool_calls[i].id

\* the log of the turn's user is the log the turn found with the delta pushed
\* on it once, message by message
DeltaFiledOnce(delta) ==
    LET key == UserKey(LogOwner(options.user))
        log == redis[key]
    IN  /\ Len(log) = Len(delta) + Len(obs.logBefore[key])
        /\ \A i \in 1..Len(delta) :
               log[Len(delta) + 1 - i] = JSONstringifyMessage(delta[i])
        /\ SubSeq(log, Len(delta) + 1, Len(log)) = obs.logBefore[key]
        /\ \A id \in UserIds \ {LogOwner(options.user)} :
               redis[UserKey(id)] = obs.logBefore[UserKey(id)]

\* C28: a turn that succeeds with a store attached has appended its delta to
\* the user's log exactly once, [user, assistant] after one provider call and
\* [user, assistant with tool_calls, a tool message per call in call order,
\* final assistant] after a dispatch, and returns that delta as
\* completion_messages
C28_DeltaAppendedOnce ==
    (pc = "done" /\ Storage) =>
        /\ obs.providerCalls \in {1, 2}
        /\ obs.providerCalls = 2 =>
               /\ response.message.has_tool_calls
               /\ response.message.tool_calls # <<>>
               /\ AnswersCallsInOrder
        /\ result.kind = "completion"
        /\ result.value.completion_messages = TurnDelta
        /\ DeltaFiledOnce(TurnDelta)

C28_Witness ==
    /\ pc = "done"
    /\ Storage
    /\ obs.providerCalls = 2
    /\ response.message.tool_calls # <<>>
    /\ obs.logBefore[UserKey(LogOwner(options.user))] # <<>>
    /\ result.value.completion_messages = TurnDelta
    /\ DeltaFiledOnce(TurnDelta)

\* C29: the request of the second provider call is the request of the first
\* call as it was sent, then the assistant message of the first response,
\* once, then the tool message of each call in call order, and nothing else
C29_SecondRequestExtendsFirst ==
    obs.providerCalls = 2 =>
        LET first == obs.requests[1]
            second == obs.requests[2]
        IN  /\ Len(obs.requests) = 2
            /\ Len(second) = Len(first) + 1 + Len(Calls)
            /\ SubSeq(second, 1, Len(first)) = first
            /\ second[Len(first) + 1] = response.message
            /\ \A i \in 1..Len(Calls) :
                   /\ second[Len(first) + 1 + i] = toolMessages[i]
                   /\ second[Len(first) + 1 + i]
                          = CallOneFunction(Calls[i], toolFunctions.functions)

C29_Witness ==
    /\ obs.providerCalls = 2
    /\ Len(Calls) = MaxCalls
    /\ Calls[1] # Calls[2]
    /\ Len(obs.requests[1]) > 1
    /\ obs.requests[2] = obs.requests[1] \o <<response.message>> \o toolMessages

AfterSecondResponse == secondResponse # NoCompletion

\* no more than two provider calls; a dispatch only between the first and the
\* second; once the second response is in, no dispatch and no call follow, the
\* tool messages are those of the first response's calls, and the second
\* response's message, tool_calls or not, ends the delta
TwoProviderCallsAtMost ==
    /\ obs.providerCalls <= 2
    /\ Len(obs.requests) = obs.providerCalls
    /\ pc \in {"dispatch", "second_call"} => obs.providerCalls = 1
    /\ AfterSecondResponse =>
           /\ obs.providerCalls = 2
           /\ pc \in {"save", "save_read", "done", "failed"}
           /\ Len(toolMessages) = Len(Calls)
           /\ \A i \in 1..Len(Calls) : toolMessages[i].tool_call_id = Calls[i].id
           /\ secondResponse.hasMessage =>
                  newMessages[Len(newMessages)] = secondResponse.message
    /\ (pc = "done" /\ obs.providerCalls = 2) =>
           /\ AfterSecondResponse
           /\ result.value.completions = <<response, secondResponse>>
           /\ result.value.completion_messages[Len(result.value.completion_messages)]
                  = secondResponse.message

\* the place of a phase in the order in which a turn passes through them
PhaseOf(p) ==
    CASE p = "idle" -> 0
      [] p = "assemble" -> 1
      [] p = "resolve" -> 2
      [] p = "first_call" -> 3
      [] p = "dispatch" -> 4
      [] p = "second_call" -> 5
      [] p = "save" -> 6
      [] p = "save_read" -> 7
      [] p \in {"done", "failed"} -> 8

InTurn == pc \notin {"idle", "done", "failed"}

\* a turn under way can always take a step: it waits for nothing but the call
\* it has made
NeverStuck == InTurn => ENABLED TurnStep(CallKinds)

\* every step of a turn moves to a later phase, or takes the next element of
\* the loop over the tool calls or over the delta, which stays as it is
TurnAdvances ==
    [][InTurn =>
          \/ PhaseOf(pc') > PhaseOf(pc)
          \/ /\ pc = "dispatch" /\ pc' = pc
             /\ idx' = idx + 1 /\ idx' <= Len(Calls)
             /\ response' = response
          \/ /\ pc = "save" /\ pc' = pc
             /\ idx' = idx + 1 /\ idx' <= Len(newMessages)
             /\ newMessages' = newMessages
      ]_<<result.kind, vars>>

\* C30: every turn ends, after at most two provider calls: a turn under way
\* can always step and every step brings it nearer to its end; the tool_calls
\* of the second response are not dispatched, no third call is made, and a
\* turn that returns after the second call has the second response's message
\* as the last message of its delta
C30_TurnEndsAfterTwoCalls ==
    /\ [](TwoProviderCallsAtMost /\ NeverStuck)
    /\ TurnAdvances

C30_Witness ==
    /\ pc = "done"
    /\ obs.providerCalls = 2
    /\ secondResponse.message.tool_calls # <<>>
    /\ Len(toolMessages) = Len(Calls)
    /\ result.value.completion_messages[Len(result.value.completion_messages)]
           = secondResponse.message

RequestedNames == options.tool_choices.names

Registered(name) ==
    \E k \in 1..Len(instance.tools.toolDefinitions) :
        instance.tools.toolDefinitions[k].name = name

\* no tool source was configured, or a requested name is not in the snapshot
Unresolvable ==
    \/ ~Truthy(toolsDirPath)
    \/ instance.present /\ \E i \in 1..Len(RequestedNames) : ~Registered(RequestedNames[i])

\* C31: the names requested for a turn are resolved before the first provider
\* call: when a name is missing from the snapshot or no tool source was
\* configured the turn fails there, with no provider call made and the store
\* as the turn found it, and a provider call of a turn that requested names
\* is made only with every one of them resolved
C31_ResolvedBeforeFirstCall ==
    /\ [][(pc = "resolve" /\ Unresolvable) =>
              /\ pc' = "failed"
              /\ fault' # NoError
              /\ result'.kind = "none"
              /\ obs'.providerCalls = 0
              /\ redis' = obs.logBefore
          ]_<<result.kind, vars>>
    /\ []((RequestedTools /\ obs.providerCalls > 0) =>
              /\ toolFunctions.defined
              /\ \A i \in 1..Len(RequestedNames) : Registered(RequestedNames[i]))
    /\ []((RequestedTools /\ pc = "failed" /\ ~toolFunctions.defined) =>
              /\ obs.providerCalls = 0
              /\ obs.requests = <<>>
              /\ redis = obs.logBefore)

C31_Witness ==
    /\ pc = "failed"
    /\ Storage
    /\ instance.present
    /\ RequestedNames = <<"get_weather", "get_time">>
    /\ Registered("get_weather")
    /\ ~Registered("get_time")
    /\ obs.providerCalls = 0
    /\ redis = obs.logBefore

\* C32: no step of a turn changes the agent's template messages, so after any
\* sequence of turns the template is the one given at construction
C32_TemplateUnchanged ==
    [][defaultHistoryMessages' = defaultHistoryMessages]_<<result.kind, vars>>

Requested(name) == \E k \in 1..Len(RequestedNames) : RequestedNames[k] = name

C34_NoEmptyDispatch ==
    /\ fault # Wrapped(<<"No tool calls found in the response message">>)
    /\ (pc \in {"done", "failed"} /\ response.hasMessage
        /\ response.message.has_tool_calls /\ response.message.tool_calls = <<>>)
           => /\ obs.providerCalls = 1
              /\ pc = "failed" => Storage

\* the log of a user in the order in which it was written
Chronicle(id) ==
    [i \in 1..Len(redis[UserKey(id)]) |->
        JSONparseMessage(redis[UserKey(id)][Len(redis[UserKey(id)]) + 1 - i])]

SavesDone == \A w \in Savers : saving[w] # NoSave /\ saving[w].pushed = Len(saving[w].messages)

RECURSIVE FromBatch(_, _)
FromBatch(log, batch) ==
    IF log = <<>> THEN <<>>
    ELSE (IF \E k \in 1..Len(batch) : batch[k] = Head(log) THEN <<Head(log)>> ELSE <<>>)
         \o FromBatch(Tail(log), batch)

\* C36: however the pushes of overlapping appends to one log fall, the log
\* holds every message pushed so far once, and the messages of each append in
\* the order of the append
C36_NothingLostOrRepeated ==
    \A id \in UserIds :
        LET mine == {w \in Savers : saving[w].id = id}
            log == Chronicle(id)
        IN  /\ \A w \in mine :
                   FromBatch(log, saving[w].messages)
                       = SubSeq(saving[w].messages, 1, saving[w].pushed)
            /\ \A i \in 1..Len(log) :
                   \E w \in mine : \E k \in 1..saving[w].pushed : saving[w].messages[k] = log[i]

C36_Witness ==
    /\ SavesDone
    /\ saving[1].id = "u1"
    /\ saving[2].id = "u1"
    /\ Len(saving[2].messages) = 4
    /\ Chronicle("u1")[1] = saving[1].messages[1]
    /\ Chronicle("u1")[2] = saving[2].messages[1]
    /\ Chronicle("u1")[6] = saving[1].messages[2]

ReadAll(store, id) == getStoredMessages(store, id, NoHistoryOptions)

\* C37: a turn that succeeds with a store attached leaves a log whose
\* unlimited unfiltered read is the read of the log it found followed by its
\* completion_messages, so the log of turns run one after another reads as
\* their deltas in turn order; and no log holds a system message
C37_LogIsDeltasInTurnOrder ==
    /\ \A id \in UserIds : \A i \in 1..Len(redis[UserKey(id)]) :
           JSONparseMessage(redis[UserKey(id)][i]).role # "system"
    /\ (pc = "done" /\ Storage) =>
           ReadAll(redis, LogOwner(options.user))
               = ReadAll(obs.logBefore, LogOwner(options.user))
                     \o result.value.completion_messages

C37_Witness ==
    /\ pc = "done"
    /\ Storage
    /\ obs.turn = MaxTurns
    /\ obs.requests[1][1].role = "system"
    /\ ReadAll(obs.logBefore, LogOwner(options.user)) # <<>>
    /\ Len(result.value.completion_messages) > 2
    /\ ReadAll(redis, LogOwner(options.user))
           = ReadAll(obs.logBefore, LogOwner(options.user))
                 \o result.value.completion_messages

\* C38: with a store attached, tool_choices passed and a non-zero limit in the
\* agent's history options, the messages the turn reads from the store, which
\* follow the template in the request, hold no tool message and no assistant
\* message with tool_calls, whatever the history options of the call
C38_ToolTurnReadsFiltered ==
    [][(/\ pc = "assemble" /\ pc' # "failed"
        /\ Storage
        /\ options.tool_choices.defined
        /\ historyOptions.appended_messages \notin {Unset, 0})
       => LET template == IF defaultHistoryMessages.defined
                          THEN Len(defaultHistoryMessages.msgs) ELSE 0
              context == obs'.contextMessages
              stored == SubSeq(context, template + 1, Len(context))
          IN  /\ \A i \in 1..Len(stored) :
                     /\ stored[i].role # "tool"
                     /\ ~stored[i].has_tool_calls
              /\ SubSeq(messages', Len(messages') - Len(stored), Len(messages') - 1)
                     = stored
      ]_<<result.kind, vars>>

C38_Witness ==
    /\ pc = "first_call"
    /\ Storage
    /\ options.tool_choices.defined
    /\ options.history.remove_tool_messages = "false"
    /\ historyOptions.appended_messages = MaxLimit
    /\ Len(obs.logBefore[UserKey("default")]) >= MaxLimit
    /\ JSONparseMessage(obs.logBefore[UserKey("default")][2]).role = "tool"
    /\ ~defaultHistoryMessages.defined
    /\ Len(obs.contextMessages) = 1
    /\ obs.contextMessages[1].role = "assistant"

\* C40: a read with a limit k > 0 and the filter takes the k most recent
\* entries first and filters them: it returns the user messages and the
\* assistant messages without tool_calls among those entries, in log order,
\* fewer than k whenever one of the entries is filtered out, whatever else the
\* log holds
C40_LimitBeforeFilter ==
    [][\A userId \in UserIds, opts \in ReadOptionSets :
          (/\ Reads(userId, opts)
           /\ opts.remove_tool_messages = "true"
           /\ opts.appended_messages \notin {Unset, 0})
          => LET k == opts.appended_messages
                 recent == MostRecent(Chronological(redis, userId), k)
             IN  /\ result'.value = SelectSeq(recent, Clean)
                 /\ Len(result'.value) <= Len(recent)
                 /\ (\E i \in 1..Len(recent) : ~Clean(recent[i]))
                        => Len(result'.value) < Len(recent)
      ]_vars

C40_Witness ==
    /\ result.kind = "messages"
    /\ fault = NoError
    /\ options.history.remove_tool_messages = "true"
    /\ options.history.appended_messages = 1
    /\ result.value = <<>>
    /\ redis = obs.logBefore
    /\ Len(CleanOf(Chronological(redis, options.user))) >= 1

InDispatcher == pc \in {"dispatch", "invoked"}

LoopTakesNextCall ==
    (InDispatcher /\ idx' # idx) =>
        (/\ idx' = idx + 1
         /\ Len(toolMessages') = idx
         /\ toolMessages'[idx] = CallOneFunction(Calls[idx], toolFunctions.functions)
         /\ SubSeq(toolMessages', 1, idx - 1) = toolMessages)

BatchAnswersEveryCall ==
    (InDispatcher /\ pc' = "idle") =>
        (/\ result'.kind = "toolMessages"
         /\ Len(result'.value) = Len(Calls)
         /\ \A i \in 1..Len(Calls) : result'.value[i].tool_call_id = Calls[i].id)

\* C39: the implementations of a batch are invoked one at a time in call
\* order: a function is invoked only when the messages of all earlier calls
\* have been pushed, the loop moves from a call to the next one only, and the
\* batch returns a message for every call, the calls that follow a failed one
\* included
C39_OneAtATimeInCallOrder ==
    /\ [](pc = "invoked" =>
              /\ idx \in 1..Len(Calls)
              /\ Len(toolMessages) = idx - 1
              /\ Invokes(Calls[idx], toolFunctions.functions))
    /\ [][LoopTakesNextCall /\ BatchAnswersEveryCall]_<<result.kind, vars>>

C39_Witness ==
    /\ pc = "idle"
    /\ result.kind = "toolMessages"
    /\ Len(Calls) = MaxCalls
    /\ Calls[1].name = "fail_tool"
    /\ Calls[2].name = "get_weather"
    /\ result.value[1].content = ErrorContent(<<"boom">>)
    /\ result.value[2].content = ResultContent("sunny")

====
